---- MODULE Spec2Model ----
(***************************************************************************)
(* A model of prepyrus: citation extraction, format validation,            *)
(* de-duplication, matching against the bibliography and disambiguation,   *)
(* as performed by verify_mdx_files (src/src/validators.rs) and            *)
(* disambiguate_matched_citations (src/src/transformers.rs); the           *)
(* rendering of the bibliography (entries_to_strings,                      *)
(* generate_mdx_bibliography), the processing of the articles              *)
(* (process_mdx_files) and the index (generate_index_to_file) of           *)
(* src/src/inserters.rs.                                                   *)
(*                                                                         *)
(* A Rust String is modelled as a sequence of one-character strings, so    *)
(* that splitting, trimming, parsing and formatting are computed and not   *)
(* assumed.                                                                *)
(***************************************************************************)
EXTENDS Integers, Sequences, FiniteSets, TLC

VARIABLES
    pc,             \* position in verify_mdx_files for the current document
    docs,           \* the batch: the documents behind mdx_paths
    idx,            \* index of the current document in docs
    all_articles,   \* verify_mdx_files: all_articles
    markdown,       \* markdown_content of the current document
    citations,      \* result of extract_citations_from_markdown
    citations_set,  \* result of create_citations_set
    bibliography,   \* all_entries
    matched,        \* result of match_citations_to_bibliography
    disambiguated,  \* result of disambiguate_matched_citations
    outcome,        \* how the run ended (or "running")
    body_parts,     \* the pieces the document body under extraction is made of
    entries,        \* generate_mdx_bibliography: entries
    bib_html,       \* result of generate_mdx_bibliography
    articles,       \* process_mdx_files / generate_index_to_file: all_articles
    files,          \* content of the file at each path
    inserter_outcome, \* process_mdx_files: the counters
    writer,         \* write_html_to_mdx_file: the content being written
    rewrite,        \* generate_index_to_file: the link prefix rewrite
    index_payload,  \* generate_index_to_file: final_payload
    mode            \* run: config.mode

vars == <<pc, docs, idx, all_articles, markdown, citations, citations_set,
          bibliography, matched, disambiguated, outcome, body_parts,
          entries, bib_html, articles, files, inserter_outcome, writer,
          rewrite, index_payload, mode>>

\* The variables of verification, and those of rendering, processing and
\* index generation; the mode is read by run only and is left as it is by
\* both.
verifyvars == <<docs, all_articles, markdown, citations, citations_set,
                bibliography, matched, disambiguated, body_parts, mode>>

procvars == <<entries, bib_html, articles, files, inserter_outcome, writer,
              rewrite, index_payload, mode>>

\* The mode is verify: nothing has been rendered, processed or indexed.
ProcIdle ==
    /\ mode = "verify"
    /\ entries = <<>>
    /\ bib_html = <<>>
    /\ articles = <<>>
    /\ files = <<>>
    /\ inserter_outcome = <<>>
    /\ writer = <<>>
    /\ rewrite = <<>>
    /\ index_payload = <<>>

-----------------------------------------------------------------------------
(* Bounds of the model.                                                    *)

MaxSegs == 3
MaxParts == 3
MaxCits == 3
MaxBib == 3
MaxDocs == 2

-----------------------------------------------------------------------------
(* Characters and strings.                                                 *)

UpperChars ==
    {"A", "B", "C", "D", "E", "F", "G", "H", "I", "J", "K", "L", "M",
     "N", "O", "P", "Q", "R", "S", "T", "U", "V", "W", "X", "Y", "Z"}

DigitChars == {"0", "1", "2", "3", "4", "5", "6", "7", "8", "9"}

WhiteChars == {" ", "\t", "\n", "\r"}

ParenChars == {"(", ")"}

IsUpper(c) == c \in UpperChars
IsDigit(c) == c \in DigitChars
IsSpace(c) == c \in WhiteChars

SetMin(S) == CHOOSE x \in S : \A y \in S : x <= y
SetMax(S) == CHOOSE x \in S : \A y \in S : x >= y

Range(s) == {s[i] : i \in 1..Len(s)}

RECURSIVE Flatten(_)
Flatten(ss) == IF ss = <<>> THEN <<>> ELSE Head(ss) \o Flatten(Tail(ss))

\* str::trim: whitespace removed at both ends.
Trim(t) ==
    LET keep == {i \in 1..Len(t) : ~IsSpace(t[i])}
    IN  IF keep = {} THEN <<>> ELSE SubSeq(t, SetMin(keep), SetMax(keep))

\* str::starts_with
StartsWith(t, p) == Len(t) >= Len(p) /\ SubSeq(t, 1, Len(p)) = p

\* str::lines: split at "\n", a final "\n" opens no further line, and a
\* "\r" directly before the "\n" (or the end) belongs to the terminator.
StripCR(l) == IF l # <<>> /\ l[Len(l)] = "\r" THEN SubSeq(l, 1, Len(l) - 1) ELSE l

RECURSIVE Lines(_)
Lines(t) ==
    IF t = <<>> THEN <<>>
    ELSE LET nl == {i \in 1..Len(t) : t[i] = "\n"}
         IN  IF nl = {} THEN <<StripCR(t)>>
             ELSE <<StripCR(SubSeq(t, 1, SetMin(nl) - 1))>>
                  \o Lines(SubSeq(t, SetMin(nl) + 1, Len(t)))

\* The text of a citation before its first comma: splitn(2, ',') item 0.
BeforeComma(t) ==
    LET cs == {i \in 1..Len(t) : t[i] = ","}
    IN  IF cs = {} THEN t ELSE SubSeq(t, 1, SetMin(cs) - 1)

-----------------------------------------------------------------------------
\* extract_citations_from_markdown: the citation_regex of validators.rs:270,
\* under the regex crate's leftmost-first semantics, applied per line. Its
\* parts are quoted at the operators that model them.

\* Number of capture groups of the expression plus the whole match: the
\* value of captures.len() for every match.
CapturesLen == 3

NoMatch == [start |-> 0, from |-> 0, to |-> 0]

\* A key character: none of "(", ")", "," and no whitespace.
IsKeyChar(c) == c \notin {"(", ")", ","} /\ ~IsSpace(c)

\* The optional locator group and the closing parenthesis, tried at
\* position k: a comma, then any characters but a closing parenthesis, then
\* the closing parenthesis. The result is the position of the closing
\* parenthesis that ends the match, 0 when there is no match. The optional
\* group is tried first; its greedy repetition stops before the first ")".
TailClose(line, k) ==
    LET closers == {e \in (k + 1)..Len(line) : line[e] = ")"}
    IN  IF k > Len(line) THEN 0
        ELSE IF line[k] = "," /\ closers # {} THEN SetMin(closers)
        ELSE IF line[k] = ")" THEN k
        ELSE 0

\* The key form from position s: "@", one or more key characters (greedy,
\* longest first), then the locator group and the closing parenthesis.
AltKey(line, s) ==
    IF s > Len(line) \/ line[s] # "@" THEN 0
    ELSE LET ends == {k \in (s + 2)..(Len(line) + 1) :
                        /\ \A j \in (s + 1)..(k - 1) : IsKeyChar(line[j])
                        /\ TailClose(line, k) # 0}
         IN  IF ends = {} THEN 0 ELSE TailClose(line, SetMax(ends))

\* The author form from position s: an upper-case letter, a lazy run of
\* non-parenthesis characters (shortest first), a greedy run of digits
\* (longest first), then the locator group and the closing parenthesis.
AltAuthor(line, s) ==
    IF s > Len(line) \/ ~IsUpper(line[s]) THEN 0
    ELSE LET reach == {j \in (s + 1)..Len(line) :
                         /\ \A i \in (s + 1)..(j - 1) : line[i] \notin ParenChars
                         /\ IsDigit(line[j])}
             ends(j) == {k \in (j + 1)..(Len(line) + 1) :
                           /\ \A i \in j..(k - 1) : IsDigit(line[i])
                           /\ TailClose(line, k) # 0}
             good == {j \in reach : ends(j) # {}}
         IN  IF good = {} THEN 0
             ELSE TailClose(line, SetMax(ends(SetMin(good))))

\* The alternation: the key form is tried before the author form.
CitationBody(line, s) ==
    IF AltKey(line, s) # 0 THEN AltKey(line, s) ELSE AltAuthor(line, s)

\* The optional group "see" plus one whitespace character, after the
\* opening parenthesis.
HasSee(line, i) ==
    /\ i + 4 <= Len(line)
    /\ line[i + 1] = "s" /\ line[i + 2] = "e" /\ line[i + 3] = "e"
    /\ IsSpace(line[i + 4])

\* A match attempt at position i, where the match starts: group 1 is
\* line[start+1..from-1] when "see" took part, group 2 is line[from..to-1]
\* and the closing parenthesis is at to.
MatchAt(line, i) ==
    IF line[i] # "(" THEN NoMatch
    ELSE IF HasSee(line, i) /\ CitationBody(line, i + 5) # 0
         THEN [start |-> i, from |-> i + 5, to |-> CitationBody(line, i + 5)]
    ELSE IF CitationBody(line, i + 1) # 0
         THEN [start |-> i, from |-> i + 1, to |-> CitationBody(line, i + 1)]
    ELSE NoMatch

\* captures_iter: successive non-overlapping leftmost matches.
RECURSIVE CapturesIter(_, _)
CapturesIter(line, pos) ==
    LET starts == {i \in pos..Len(line) : MatchAt(line, i) # NoMatch}
    IN  IF starts = {} THEN <<>>
        ELSE LET m == MatchAt(line, SetMin(starts))
             IN  <<m>> \o CapturesIter(line, m.to + 1)

\* Mutant: the locator is cut off at extraction.
CaptureToCitation_StripLocator(line, m) ==
    <<Trim(BeforeComma(SubSeq(line, m.from, m.to - 1)))>>

\* Mutant: the text between the parentheses, "see " included.
CaptureToCitation_KeepSee(line, m) ==
    <<Trim(SubSeq(line, m.start + 1, m.to - 1))>>

\* The arm of `match captures.len()` taken for one match: group 1 when the
\* length is 2, group 2 when it is 3, nothing otherwise.
CaptureToCitation(line, m) ==
    IF CapturesLen = 2
    THEN <<Trim(SubSeq(line, m.start + 1, m.from - 1))>>
    ELSE IF CapturesLen = 3
    THEN <<Trim(SubSeq(line, m.from, m.to - 1))>>
    ELSE <<>>

RECURSIVE CitationsOfCaptures(_, _)
CitationsOfCaptures(line, ms) ==
    IF ms = <<>> THEN <<>>
    ELSE CaptureToCitation(line, Head(ms)) \o CitationsOfCaptures(line, Tail(ms))

RECURSIVE CitationsOfLines(_)
CitationsOfLines(ls) ==
    IF ls = <<>> THEN <<>>
    ELSE CitationsOfCaptures(Head(ls), CapturesIter(Head(ls), 1))
         \o CitationsOfLines(Tail(ls))

extract_citations_from_markdown(md) == CitationsOfLines(Lines(md))

-----------------------------------------------------------------------------
(* Numbers: u32 parsing and i32 formatting.                                *)

DigitSeq == <<"0", "1", "2", "3", "4", "5", "6", "7", "8", "9">>

DigitValue(c) == (CHOOSE i \in 1..10 : DigitSeq[i] = c) - 1

RECURSIVE DecimalValue(_, _)
DecimalValue(ds, acc) ==
    IF ds = <<>> THEN acc
    ELSE DecimalValue(Tail(ds), acc * 10 + DigitValue(Head(ds)))

RECURSIVE StripZeros(_)
StripZeros(ds) ==
    IF Len(ds) > 1 /\ Head(ds) = "0" THEN StripZeros(Tail(ds)) ELSE ds

\* A u32 is held as two decimal limbs, value = hi * Limb + lo with
\* lo < Limb; u32::MAX = 4294967295 is U32MaxHi * Limb + U32MaxLo and has
\* U32Digits digits.
Limb == 100000
LimbDigits == 5
U32Digits == 10
U32MaxHi == 42949
U32MaxLo == 67295

\* word.parse::<u32>(): an optional "+", then one or more decimal digits
\* whose value does not exceed u32::MAX.
ParseU32(word) ==
    LET ds == IF word # <<>> /\ Head(word) = "+" THEN Tail(word) ELSE word
        sig == StripZeros(ds)
        cut == IF Len(sig) > LimbDigits THEN Len(sig) - LimbDigits ELSE 0
        hi == DecimalValue(SubSeq(sig, 1, cut), 0)
        lo == DecimalValue(SubSeq(sig, cut + 1, Len(sig)), 0)
    IN  IF ds = <<>> \/ (\E i \in 1..Len(ds) : ~IsDigit(ds[i]))
        THEN [ok |-> FALSE, hi |-> 0, lo |-> 0]
        ELSE IF Len(sig) > U32Digits
        THEN [ok |-> FALSE, hi |-> 0, lo |-> 0]
        ELSE IF hi > U32MaxHi \/ (hi = U32MaxHi /\ lo > U32MaxLo)
        THEN [ok |-> FALSE, hi |-> 0, lo |-> 0]
        ELSE [ok |-> TRUE, hi |-> hi, lo |-> lo]

\* The decimal digits of n >= 0.
RECURSIVE FormatNat(_)
FormatNat(n) ==
    IF n < 10 THEN <<DigitSeq[n + 1]>>
    ELSE FormatNat(n \div 10) \o <<DigitSeq[(n % 10) + 1]>>

\* format!("{:?}", year) and year.to_string() for an i32.
FormatI32(n) == IF n < 0 THEN <<"-">> \o FormatNat(0 - n) ELSE FormatNat(n)

-----------------------------------------------------------------------------
(* check_parentheses_balance                                               *)

RECURSIVE BalanceFrom(_, _)
BalanceFrom(t, balance) ==
    IF t = <<>> THEN balance = 0
    ELSE LET b == IF Head(t) = "(" THEN balance + 1
                  ELSE IF Head(t) = ")" THEN balance - 1
                  ELSE balance
         IN  IF b < 0 THEN FALSE ELSE BalanceFrom(Tail(t), b)

\* A check that compares the numbers of "(" and ")" only.
RECURSIVE CountChar(_, _)
CountChar(t, c) ==
    IF t = <<>> THEN 0
    ELSE (IF Head(t) = c THEN 1 ELSE 0) + CountChar(Tail(t), c)

check_parentheses_balance_Counts(md) == CountChar(md, "(") = CountChar(md, ")")

check_parentheses_balance(md) == BalanceFrom(md, 0)

-----------------------------------------------------------------------------
(* verify_citations_format                                                 *)

YearMin == 1000
YearMax == 9999

\* str::split_whitespace: the maximal runs of non-whitespace characters.
RECURSIVE SplitWhitespace(_)
SplitWhitespace(t) ==
    LET keep == {i \in 1..Len(t) : ~IsSpace(t[i])}
    IN  IF keep = {} THEN <<>>
        ELSE LET a == SetMin(keep)
                 sp == {i \in a..Len(t) : IsSpace(t[i])}
                 b == IF sp = {} THEN Len(t) ELSE SetMin(sp) - 1
             IN  <<SubSeq(t, a, b)>> \o SplitWhitespace(SubSeq(t, b + 1, Len(t)))

WordIsYear_Exclusive(word) ==
    LET r == ParseU32(word) IN r.ok /\ r.hi = 0 /\ r.lo > YearMin /\ r.lo < YearMax

\* The closure given to any(): the word parses and lies in the range.
WordIsYear(word) ==
    LET r == ParseU32(word) IN r.ok /\ r.hi = 0 /\ r.lo >= YearMin /\ r.lo <= YearMax

has_year(citation) ==
    LET first_part == Trim(BeforeComma(citation))
        words == SplitWhitespace(first_part)
    IN  \E i \in 1..Len(words) : WordIsYear(words[i])

FormatOk == [ok |-> TRUE, citation |-> <<>>]

\* A variant that accepts every list.
verify_citations_format_Skip(cs) == FormatOk

\* Ok, or the error naming the first citation without a year.
RECURSIVE verify_citations_format(_)
verify_citations_format(cs) ==
    IF cs = <<>> THEN FormatOk
    ELSE IF StartsWith(Head(cs), <<"@">>) THEN verify_citations_format(Tail(cs))
    ELSE IF ~has_year(Head(cs)) THEN [ok |-> FALSE, citation |-> Head(cs)]
    ELSE verify_citations_format(Tail(cs))

-----------------------------------------------------------------------------
(* create_citations_set                                                    *)

\* A variant that keeps every prepared citation, repeated or not.
CitationsSetFrom_KeepAll(cs, set) ==
    set \o [i \in 1..Len(cs) |-> BeforeComma(cs[i])]

RECURSIVE CitationsSetFrom(_, _)
CitationsSetFrom(cs, set) ==
    IF cs = <<>> THEN set
    ELSE LET prepared_citation == BeforeComma(Head(cs))
         IN  IF prepared_citation \in Range(set)
             THEN CitationsSetFrom(Tail(cs), set)
             ELSE CitationsSetFrom(Tail(cs), Append(set, prepared_citation))

create_citations_set(cs) == CitationsSetFrom(cs, <<>>)

-----------------------------------------------------------------------------
(* Bibliography entries (biblatex::Entry) and their field accessors.       *)
(* An entry is [key, entry_type, author, date]: author is the list of      *)
(* persons [name, given_name], empty when the field is absent; date is     *)
(* [kind, year] with kind "At", "After", "Before", "Between" (a typed      *)
(* date; year is the start year), "Chunks" (a date that did not parse into *)
(* a typed value) or "Missing" (no date field).                            *)

\* The printable ASCII characters in code order, from code 32 (the quote,
\* backslash and grave accent are held by name).
AsciiFirst == 32

Ascii ==
    <<
      " ", "!", "<quote>", "#", "$", "%", "&", "'", "(", ")", "*", "+",
      ",", "-", ".", "/", "0", "1", "2", "3", "4", "5", "6", "7",
      "8", "9", ":", ";", "<", "=", ">", "?", "@", "A", "B", "C",
      "D", "E", "F", "G", "H", "I", "J", "K", "L", "M", "N", "O",
      "P", "Q", "R", "S", "T", "U", "V", "W", "X", "Y", "Z", "[",
      "<backslash>", "]", "^", "_", "<grave>", "a", "b", "c", "d", "e", "f", "g",
      "h", "i", "j", "k", "l", "m", "n", "o", "p", "q", "r", "s",
      "t", "u", "v", "w", "x", "y", "z", "{", "|", "}", "~"
    >>

\* Two letters outside ASCII, held by name, in code order: the upper-case
\* and the lower-case e with acute accent. In UTF-8 they compare above
\* every ASCII character.
NonAscii == <<"<E-acute>", "<e-acute>">>

\* The rank of a character in the bytewise order; for an ASCII character
\* its code.
CharCode(c) ==
    IF \E i \in 1..Len(NonAscii) : NonAscii[i] = c
    THEN AsciiFirst - 1 + Len(Ascii) + (CHOOSE i \in 1..Len(NonAscii) : NonAscii[i] = c)
    ELSE AsciiFirst - 1 + (CHOOSE i \in 1..Len(Ascii) : Ascii[i] = c)

\* String comparison (Ord for String): bytewise lexicographic, a < b.
RECURSIVE StrLess(_, _)
StrLess(a, b) ==
    IF b = <<>> THEN FALSE
    ELSE IF a = <<>> THEN TRUE
    ELSE IF Head(a) = Head(b) THEN StrLess(Tail(a), Tail(b))
    ELSE CharCode(Head(a)) < CharCode(Head(b))

\* entry.author(): Err when the entry has no author.
AuthorOk(entry) == entry.author # <<>>

\* entry.date(): Err when the entry has no date.
DateOk(entry) == entry.date.kind # "Missing"

\* BiblatexUtils::extract_year_from_date: Ok for a typed date only.
YearOk(entry) == entry.date.kind \in {"At", "After", "Before", "Between"}

extract_year_from_date(date) == date.year

\* The three unwrap() calls made on an entry's author, date and year: all
\* of them succeed.
UnwrapsOk(entry) == AuthorOk(entry) /\ DateOk(entry) /\ YearOk(entry)

-----------------------------------------------------------------------------
(* match_citations_to_bibliography                                         *)

\* The key of an "@" citation: the text before the first comma, trimmed,
\* without its first character.
CitationKey(citation) ==
    LET citation_key == Trim(BeforeComma(citation))
    IN  SubSeq(citation_key, 2, Len(citation_key))

\* format!("{} {:?}", author_last_name, year)
AuthorYear(entry) ==
    entry.author[1].name \o <<" ">> \o FormatI32(extract_year_from_date(entry.date))

\* One iteration of the inner loop: "match", "nomatch", or "panic" when an
\* unwrap() fails.
EvalEntry(citation, entry) ==
    IF StartsWith(citation, <<"@">>)
    THEN IF entry.key = CitationKey(citation) THEN "match" ELSE "nomatch"
    ELSE IF ~UnwrapsOk(entry) THEN "panic"
    ELSE IF citation = AuthorYear(entry) THEN "match" ELSE "nomatch"

\* The inner loop from entry j on: the index of the first matching entry,
\* 0 when the scan ends without a match, -1 when it panics.
RECURSIVE ScanEntries_Last(_, _, _)
ScanEntries_Last(citation, bib, j) ==
    IF j > Len(bib) THEN 0
    ELSE LET r == EvalEntry(citation, bib[j])
             rest == ScanEntries_Last(citation, bib, j + 1)
         IN  IF r = "panic" THEN -1
             ELSE IF rest # 0 THEN rest
             ELSE IF r = "match" THEN j ELSE 0

RECURSIVE ScanEntries(_, _, _)
ScanEntries(citation, bib, j) ==
    IF j > Len(bib) THEN 0
    ELSE LET r == EvalEntry(citation, bib[j])
         IN  IF r = "panic" THEN -1
             ELSE IF r = "match" THEN j
             ELSE ScanEntries(citation, bib, j + 1)

\* unmatched_citations.retain(|x| x != &citation)
Retain(seq, citation) == SelectSeq(seq, LAMBDA x : x # citation)

\* The outer loop over the remaining citations cs.
RECURSIVE MatchLoop(_, _, _, _)
MatchLoop(cs, bib, unmatched_citations, matched_citations) ==
    IF cs = <<>>
    THEN IF Len(unmatched_citations) > 0
         THEN [kind |-> "err", matched |-> <<>>, unmatched |-> unmatched_citations]
         ELSE [kind |-> "ok", matched |-> matched_citations, unmatched |-> <<>>]
    ELSE LET citation == Head(cs)
             j == ScanEntries(citation, bib, 1)
         IN  IF j = -1
             THEN [kind |-> "panic", matched |-> <<>>, unmatched |-> <<>>]
             ELSE IF j = 0
             THEN MatchLoop(Tail(cs), bib, unmatched_citations, matched_citations)
             ELSE MatchLoop(Tail(cs), bib,
                            Retain(unmatched_citations, citation),
                            Append(matched_citations,
                                   [citation_raw |-> citation, entry |-> bib[j]]))

match_citations_to_bibliography(cs, bib) == MatchLoop(cs, bib, cs, <<>>)

-----------------------------------------------------------------------------
(* disambiguate_matched_citations and its helpers (transformers.rs).       *)

\* extract_date(entry).
extract_date(entry) == extract_year_from_date(entry.date)

\* format_authors: the Chicago form of the author list.
format_authors(author) ==
    IF Len(author) > 2
    THEN author[1].name \o <<",", " ">> \o author[1].given_name
         \o <<" ", "e", "t", " ", "a", "l", ".", " ">>
    ELSE IF Len(author) = 2
    THEN author[1].name \o <<",", " ">> \o author[1].given_name
         \o <<" ", "a", "n", "d", " ">> \o author[2].given_name
         \o <<" ">> \o author[2].name \o <<".", " ">>
    ELSE author[1].name \o <<",", " ">> \o author[1].given_name \o <<".", " ">>

\* char::from(code)
Chr(code) ==
    IF code >= AsciiFirst /\ code < AsciiFirst + Len(Ascii)
    THEN Ascii[code - AsciiFirst + 1]
    ELSE "<byte>"

\* `index as u8` truncates to eight bits.
ByteModulus == 256

\* char::from(b'a' + index as u8)
LetterOf(index) == Chr(CharCode("a") + (index % ByteModulus))

\* format!("{} {}{}", author, year, letter)
create_disambiguated_citation(letter, entry) ==
    format_authors(entry.author) \o <<" ">> \o FormatI32(extract_date(entry))
    \o <<letter>>

\* format!("{}{}", year, letter)
create_disambiguated_year(letter, entry) ==
    FormatI32(extract_date(entry)) \o <<letter>>

create_standard_citation(raw_citation, entry) ==
    IF StartsWith(raw_citation, <<"@">>)
    THEN entry.author[1].name \o <<" ">>
         \o FormatI32(extract_year_from_date(entry.date))
    ELSE raw_citation

\* format!("{}-{}", author_last_name, year): the key of author_year_groups.
author_year_key(entry) ==
    entry.author[1].name \o <<"-">> \o FormatI32(extract_year_from_date(entry.date))

\* The keys of author_year_groups, and the Vec pushed under one key: the
\* citations with that key, in input order.
GroupKeys(cs) == {author_year_key(cs[i].entry) : i \in 1..Len(cs)}

GroupOf(cs, k) == SelectSeq(cs, LAMBDA c : author_year_key(c.entry) = k)

\* sort_by(|a, b| a.entry.key.cmp(&b.entry.key)): a stable sort.
RECURSIVE InsertByKey(_, _)
InsertByKey(sorted, c) ==
    IF sorted = <<>> THEN <<c>>
    ELSE IF StrLess(c.entry.key, Head(sorted).entry.key) THEN <<c>> \o sorted
    ELSE <<Head(sorted)>> \o InsertByKey(Tail(sorted), c)

RECURSIVE SortByKey(_)
SortByKey(cs) ==
    IF cs = <<>> THEN <<>>
    ELSE InsertByKey(SortByKey(SubSeq(cs, 1, Len(cs) - 1)), cs[Len(cs)])

\* HashMap::insert
MapInsert(m, k, v) == [x \in (DOMAIN m) \cup {k} |-> IF x = k THEN v ELSE m[x]]

EmptyMaps == [citation_to_disambiguated |-> <<>>, year_to_disambiguated |-> <<>>]

\* The loop over sorted_citations.iter().enumerate(), from `index` on.
RECURSIVE InsertLetters(_, _, _)
InsertLetters(sorted_citations, index, maps) ==
    IF index >= Len(sorted_citations) THEN maps
    ELSE LET citation == sorted_citations[index + 1]
             letter == LetterOf(index)
         IN  InsertLetters(sorted_citations, index + 1,
                 [citation_to_disambiguated |->
                      MapInsert(maps.citation_to_disambiguated, citation.citation_raw,
                                create_disambiguated_citation(letter, citation.entry)),
                  year_to_disambiguated |->
                      MapInsert(maps.year_to_disambiguated, citation.citation_raw,
                                create_disambiguated_year(letter, citation.entry))])

\* The body of the loop over author_year_groups for one group.
ProcessGroup_AlwaysLetters(group_citations, maps) ==
    InsertLetters(SortByKey(group_citations), 0, maps)

ProcessGroup(group_citations, maps) ==
    IF Len(group_citations) > 1
    THEN InsertLetters(SortByKey(group_citations), 0, maps)
    ELSE LET citation == group_citations[1]
         IN  [citation_to_disambiguated |->
                  MapInsert(maps.citation_to_disambiguated, citation.citation_raw,
                            create_standard_citation(citation.citation_raw, citation.entry)),
              year_to_disambiguated |-> maps.year_to_disambiguated]

\* The loop over author_year_groups, visiting the keys in `order`: a
\* HashMap iterates in an unspecified order.
RECURSIVE ProcessGroups(_, _, _)
ProcessGroups(cs, order, maps) ==
    IF order = <<>> THEN maps
    ELSE ProcessGroups(cs, Tail(order), ProcessGroup(GroupOf(cs, Head(order)), maps))

\* The orders in which the groups of cs can be visited.
GroupOrders(cs) ==
    LET ks == {author_year_key(cs[i].entry) : i \in {j \in 1..Len(cs) : UnwrapsOk(cs[j].entry)}}
        n == Cardinality(ks)
    IN  {o \in [1..n -> ks] : \A i, j \in 1..n : i # j => o[i] # o[j]}

\* The final map() over the citations.
Transform(matched_citation, maps) ==
    [citation_raw |-> matched_citation.citation_raw,
     citation_author_date_disambiguated |->
         IF matched_citation.citation_raw \in DOMAIN maps.citation_to_disambiguated
         THEN maps.citation_to_disambiguated[matched_citation.citation_raw]
         ELSE matched_citation.citation_raw,
     year_disambiguated |->
         IF matched_citation.citation_raw \in DOMAIN maps.year_to_disambiguated
         THEN maps.year_to_disambiguated[matched_citation.citation_raw]
         ELSE FormatI32(extract_date(matched_citation.entry)),
     entry |-> matched_citation.entry]

\* disambiguate_matched_citations with the groups visited in `order`: the
\* list of MatchedCitationDisambiguated, or a panic when an unwrap() of the
\* grouping loop fails.
disambiguate_matched_citations(cs, order) ==
    IF \E i \in 1..Len(cs) : ~UnwrapsOk(cs[i].entry)
    THEN [kind |-> "panic", list |-> <<>>]
    ELSE LET maps == ProcessGroups(cs, order, EmptyMaps)
         IN  [kind |-> "ok", list |-> [i \in 1..Len(cs) |-> Transform(cs[i], maps)]]

-----------------------------------------------------------------------------
(* Inputs: document bodies, citations, entries, documents.                 *)

\* All sequences over S of length at most n, and those without repetition.
SeqsUpTo(S, n) == UNION {[1..k -> S] : k \in 0..n}

IsInjective(s) == \A i, j \in 1..Len(s) : i # j => s[i] # s[j]

DistinctSeqsUpTo(S, n) == {s \in SeqsUpTo(S, n) : IsInjective(s)}

\* Pieces of a document body: well-formed markers ("marker": content is the
\* text between the parentheses after an optional "see "; form tells the
\* author-year, the "see" and the key form apart), markers lacking one
\* parenthesis ("open", "close"), plain text and the line break.
BodyPieces ==
    {[kind |-> "marker", form |-> "author", text |-> <<"(", "K", "a", "n", "t", " ", "2", "0", "2", "0", ")">>,
         content |-> <<"K", "a", "n", "t", " ", "2", "0", "2", "0">>],
     [kind |-> "marker", form |-> "author", text |-> <<"(", "H", "u", "m", "e", " ", "1", "7", "3", "9", ",", " ", "1", "2", ")">>,
         content |-> <<"H", "u", "m", "e", " ", "1", "7", "3", "9", ",", " ", "1", "2">>],
     [kind |-> "marker", form |-> "see", text |-> <<"(", "s", "e", "e", " ", "K", "a", "n", "t", " ", "2", "0", "2", "0", ")">>,
         content |-> <<"K", "a", "n", "t", " ", "2", "0", "2", "0">>],
     [kind |-> "marker", form |-> "key", text |-> <<"(", "@", "k", "1", ",", " ", "5", ")">>,
         content |-> <<"@", "k", "1", ",", " ", "5">>],
     [kind |-> "open", form |-> "", text |-> <<"(", "H", "u", "m", "e", " ", "1", "7", "3", "9", ",", " ", "1", "2">>, content |-> <<>>],
     [kind |-> "open", form |-> "", text |-> <<"(", "M", "a", "r", "x", " ", "1", "8", "6", "7">>, content |-> <<>>],
     [kind |-> "close", form |-> "", text |-> <<"M", "a", "r", "x", " ", "1", "8", "6", "7", ")">>, content |-> <<>>],
     [kind |-> "text", form |-> "", text |-> <<" ", "x", " ">>, content |-> <<>>],
     [kind |-> "nl", form |-> "", text |-> <<"\n">>, content |-> <<>>]}

RECURSIVE TextOfParts(_)
TextOfParts(ps) == IF ps = <<>> THEN <<>> ELSE Head(ps).text \o TextOfParts(Tail(ps))

\* Parts of a raw citation handed to verify_citations_format.
CitationParts ==
    {<<"K", "a", "n", "t">>, <<" ">>, <<",">>, <<"2", "0", "2", "0">>, <<"9", "9", "9">>, <<"1", "0", "0", "0">>, <<"9", "9", "9", "9">>, <<"1", "0", "0", "0", "0">>,
     <<"+", "2", "0", "2", "0">>, <<"0", "2", "0", "2", "0">>, <<"2", "0", "a", "0">>, <<"@", "k">>}

CitationTexts == {Flatten(ps) : ps \in SeqsUpTo(CitationParts, MaxParts)}

\* A second citation for lists of two.
SecondCitations == {<<"K", "a", "n", "t", " ", "2", "0", "2", "0", ",", " ", "1", "2">>, <<"K", "a", "n", "t">>, <<"@", "k">>}

Person(name, given_name) == [name |-> name, given_name |-> given_name]

Hegel == Person(<<"H", "e", "g", "e", "l">>, <<"G", "e", "o", "r", "g">>)
Kant == Person(<<"K", "a", "n", "t">>, <<"I", "m", "m", "a", "n", "u", "e", "l">>)
Marx == Person(<<"M", "a", "r", "x">>, <<"K", "a", "r", "l">>)

DateAt(y) == [kind |-> "At", year |-> y]

EntryH1 == [key |-> <<"h", "1">>, entry_type |-> "book", author |-> <<Hegel>>, date |-> DateAt(2020)]
EntryH2 == [key |-> <<"h", "2">>, entry_type |-> "book", author |-> <<Hegel>>, date |-> DateAt(2020)]
EntryH3 == [key |-> <<"h", "3">>, entry_type |-> "article", author |-> <<Hegel, Marx>>,
            date |-> [kind |-> "Between", year |-> 2020]]
EntryK1 == [key |-> <<"k", "1">>, entry_type |-> "book", author |-> <<Kant>>, date |-> DateAt(1781)]
\* An entry without author, and one whose date is not a typed date.
EntryN1 == [key |-> <<"n", "1">>, entry_type |-> "book", author |-> <<>>, date |-> DateAt(1900)]
EntryD1 == [key |-> <<"d", "1">>, entry_type |-> "book", author |-> <<Marx>>,
            date |-> [kind |-> "Chunks", year |-> 0]]

EntryPool == {EntryH1, EntryH2, EntryH3, EntryK1, EntryN1, EntryD1}

\* Bibliography keys are unique (the parser rejects a duplicate key).
Bibliographies == DistinctSeqsUpTo(EntryPool, MaxBib)

\* De-duplicated raw citations as create_citations_set returns them.
RawCitationPool ==
    {<<"H", "e", "g", "e", "l", " ", "2", "0", "2", "0">>, <<"K", "a", "n", "t", " ", "1", "7", "8", "1">>, <<"M", "a", "r", "x", " ", "1", "8", "6", "7">>, <<"@", "h", "1">>, <<"@", "h", "2">>, <<"@", "h", "3">>, <<"@", "n", "1">>}

CitationSets == DistinctSeqsUpTo(RawCitationPool, MaxCits)

\* Documents of a batch: [parse_ok, is_article, has_index_title, body].
DocBodies ==
    {<<"(", "H", "e", "g", "e", "l", " ", "2", "0", "2", "0", ")">>, <<"(", "@", "h", "2", ")", " ", "(", "H", "e", "g", "e", "l", " ", "2", "0", "2", "0", ",", " ", "1", ")">>, <<"(", "K", "a", "n", "t", " ", "1", "7", "8", "1">>,
     <<"(", "H", "u", "m", "e", ",", " ", "2", "0", "2", "0", ")">>, <<"(", "M", "a", "r", "x", " ", "1", "8", "6", "7", ")">>, <<"n", "o", " ", "c", "i", "t", "a", "t", "i", "o", "n">>}

Documents ==
    {[parse_ok |-> FALSE, is_article |-> FALSE, has_index_title |-> FALSE, body |-> <<>>],
     [parse_ok |-> TRUE, is_article |-> FALSE, has_index_title |-> FALSE,
      body |-> <<"(", "M", "a", "r", "x", " ", "1", "8", "6", "7", ")">>],
     [parse_ok |-> TRUE, is_article |-> TRUE, has_index_title |-> FALSE,
      body |-> <<"(", "H", "e", "g", "e", "l", " ", "2", "0", "2", "0", ")">>]}
    \cup {[parse_ok |-> TRUE, is_article |-> TRUE, has_index_title |-> TRUE, body |-> b] :
             b \in DocBodies}

Batches == SeqsUpTo(Documents, MaxDocs)

BatchBibliographies == DistinctSeqsUpTo({EntryH1, EntryH2, EntryK1, EntryN1}, MaxBib)

Running == [kind |-> "running", detail |-> <<>>]

NoResult == [kind |-> "none", list |-> <<>>]

-----------------------------------------------------------------------------
(* verify_mdx_files, one action per step of the loop body.                 *)

\* read_mdx_file and the is_article test.
ReadFile ==
    /\ pc = "read" /\ idx <= Len(docs)
    /\ IF ~docs[idx].parse_ok
       THEN /\ pc' = "exit"
            /\ outcome' = [kind |-> "exit_read", detail |-> <<>>]
            /\ UNCHANGED <<idx, markdown>>
       ELSE IF ~docs[idx].is_article
       THEN /\ idx' = idx + 1
            /\ markdown' = docs[idx].body
            /\ UNCHANGED <<pc, outcome>>
       ELSE /\ pc' = "balance"
            /\ markdown' = docs[idx].body
            /\ UNCHANGED <<idx, outcome>>
    /\ UNCHANGED <<docs, all_articles, citations, citations_set, bibliography,
                   matched, disambiguated, body_parts>>
    /\ UNCHANGED procvars

CheckBalance ==
    /\ pc = "balance"
    /\ IF ~check_parentheses_balance(markdown)
       THEN pc' = "error" /\ outcome' = [kind |-> "err_unbalanced", detail |-> <<>>]
       ELSE pc' = "extract" /\ UNCHANGED outcome
    /\ UNCHANGED <<docs, idx, all_articles, markdown, citations, citations_set,
                   bibliography, matched, disambiguated, body_parts>>
    /\ UNCHANGED procvars

ExtractCitations ==
    /\ pc = "extract"
    /\ citations' = extract_citations_from_markdown(markdown)
    /\ pc' = "format"
    /\ UNCHANGED <<docs, idx, all_articles, markdown, citations_set, bibliography,
                   matched, disambiguated, outcome, body_parts>>
    /\ UNCHANGED procvars

VerifyFormat ==
    /\ pc = "format"
    /\ LET r == verify_citations_format(citations)
       IN  IF r.ok
           THEN pc' = "set" /\ UNCHANGED outcome
           ELSE pc' = "exit" /\ outcome' = [kind |-> "exit_malformed", detail |-> r.citation]
    /\ UNCHANGED <<docs, idx, all_articles, markdown, citations, citations_set,
                   bibliography, matched, disambiguated, body_parts>>
    /\ UNCHANGED procvars

CreateSet ==
    /\ pc = "set"
    /\ citations_set' = create_citations_set(citations)
    /\ pc' = "match"
    /\ UNCHANGED <<docs, idx, all_articles, markdown, citations, bibliography,
                   matched, disambiguated, outcome, body_parts>>
    /\ UNCHANGED procvars

MatchCitations ==
    /\ pc = "match"
    /\ matched' = match_citations_to_bibliography(citations_set, bibliography)
    /\ IF matched'.kind = "ok"
       THEN pc' = "disambiguate" /\ UNCHANGED outcome
       ELSE IF matched'.kind = "err"
       THEN pc' = "exit"
            /\ outcome' = [kind |-> "exit_unmatched", detail |-> matched'.unmatched]
       ELSE pc' = "panic" /\ outcome' = [kind |-> "panic", detail |-> <<>>]
    /\ UNCHANGED <<docs, idx, all_articles, markdown, citations, citations_set,
                   bibliography, disambiguated, body_parts>>
    /\ UNCHANGED procvars

Disambiguate ==
    /\ pc = "disambiguate"
    /\ \E order \in GroupOrders(matched.matched) :
           disambiguated' = disambiguate_matched_citations(matched.matched, order)
    /\ IF disambiguated'.kind = "ok"
       THEN pc' = "try_from" /\ UNCHANGED outcome
       ELSE pc' = "panic" /\ outcome' = [kind |-> "panic", detail |-> <<>>]
    /\ UNCHANGED <<docs, idx, all_articles, markdown, citations, citations_set,
                   bibliography, matched, body_parts>>
    /\ UNCHANGED procvars

\* ArticleFileData::try_from and the push to all_articles.
TryFrom ==
    /\ pc = "try_from"
    /\ IF ~docs[idx].has_index_title
       THEN /\ pc' = "error"
            /\ outcome' = [kind |-> "err_missing_title", detail |-> <<>>]
            /\ UNCHANGED <<idx, all_articles>>
       ELSE /\ all_articles' = Append(all_articles,
                                      [path |-> idx,
                                       entries_disambiguated |-> disambiguated.list])
            /\ idx' = idx + 1
            /\ pc' = "read"
            /\ UNCHANGED outcome
    /\ UNCHANGED <<docs, markdown, citations, citations_set, bibliography,
                   matched, disambiguated, body_parts>>
    /\ UNCHANGED procvars

\* The end of the loop: Ok(all_articles).
Finish ==
    /\ pc = "read" /\ idx > Len(docs)
    /\ pc' = "done"
    /\ outcome' = [kind |-> "ok", detail |-> <<>>]
    /\ UNCHANGED <<docs, idx, all_articles, markdown, citations, citations_set,
                   bibliography, matched, disambiguated, body_parts>>
    /\ UNCHANGED procvars

-----------------------------------------------------------------------------
(* Specifications.                                                         *)

\* verify_mdx_files over a batch of documents.
Init ==
    /\ pc = "read"
    /\ docs \in Batches
    /\ bibliography \in BatchBibliographies
    /\ idx = 1
    /\ all_articles = <<>>
    /\ markdown = <<>>
    /\ citations = <<>>
    /\ citations_set = <<>>
    /\ matched = NoResult
    /\ disambiguated = NoResult
    /\ outcome = Running
    /\ ProcIdle
    /\ body_parts = <<>>

Next ==
    \/ ReadFile
    \/ CheckBalance
    \/ ExtractCitations
    \/ VerifyFormat
    \/ CreateSet
    \/ MatchCitations
    \/ Disambiguate
    \/ TryFrom
    \/ Finish

Spec == Init /\ [][Next]_vars

\* extract_citations_from_markdown applied to a composed body.
InitExtract ==
    /\ pc = "extract"
    /\ body_parts \in SeqsUpTo(BodyPieces, MaxSegs)
    /\ markdown = TextOfParts(body_parts)
    /\ docs = <<>>
    /\ bibliography = <<>>
    /\ idx = 1
    /\ all_articles = <<>>
    /\ citations = <<>>
    /\ citations_set = <<>>
    /\ matched = NoResult
    /\ disambiguated = NoResult
    /\ outcome = Running
    /\ ProcIdle

NextExtract == ExtractCitations

SpecExtract == InitExtract /\ [][NextExtract]_vars

\* verify_citations_format and create_citations_set applied to a list of
\* raw citations.
InitFormat ==
    /\ pc = "format"
    /\ citations \in {<<c>> : c \in CitationTexts}
                     \cup {<<c, d>> : c \in CitationTexts, d \in SecondCitations}
    /\ markdown = <<>>
    /\ body_parts = <<>>
    /\ docs = <<>>
    /\ bibliography = <<>>
    /\ idx = 1
    /\ all_articles = <<>>
    /\ citations_set = <<>>
    /\ matched = NoResult
    /\ disambiguated = NoResult
    /\ outcome = Running
    /\ ProcIdle

NextFormat == VerifyFormat \/ CreateSet

SpecFormat == InitFormat /\ [][NextFormat]_vars

\* match_citations_to_bibliography followed by
\* disambiguate_matched_citations, on a citation set and a bibliography.
InitResolve ==
    /\ pc = "match"
    /\ citations_set \in CitationSets
    /\ bibliography \in Bibliographies
    /\ markdown = <<>>
    /\ body_parts = <<>>
    /\ docs = <<>>
    /\ idx = 1
    /\ all_articles = <<>>
    /\ citations = <<>>
    /\ matched = NoResult
    /\ disambiguated = NoResult
    /\ outcome = Running
    /\ ProcIdle

NextResolve == MatchCitations \/ Disambiguate

SpecResolve == InitResolve /\ [][NextResolve]_vars

-----------------------------------------------------------------------------
(* Claims about extract_citations_from_markdown (SpecExtract).             *)

Extracted == pc = "format" /\ body_parts # <<>>

\* The text of the body before piece p, and its part on the line of p.
TextBefore(p) == TextOfParts(SubSeq(body_parts, 1, p - 1))

LineBefore(p) ==
    LET t == TextBefore(p)
        nl == {i \in 1..Len(t) : t[i] = "\n"}
    IN  IF nl = {} THEN t ELSE SubSeq(t, SetMax(nl) + 1, Len(t))

\* Every parenthesis opened before piece p on its line has been closed: no
\* "(" follows the last ")" there.
ClosedBefore(p) ==
    LET l == LineBefore(p)
        cl == {i \in 1..Len(l) : l[i] = ")"}
        last == IF cl = {} THEN 0 ELSE SetMax(cl)
    IN  \A i \in (last + 1)..Len(l) : l[i] # "("

\* The number of citations extracted from the text before piece p.
CountBefore(p) == Len(extract_citations_from_markdown(TextBefore(p)))

AuthorPieces == {p \in 1..Len(body_parts) :
                    body_parts[p].kind = "marker" /\ body_parts[p].form = "author"}

\* The contents of the well-formed markers of the body, in order.
RECURSIVE MarkerContents(_)
MarkerContents(ps) ==
    IF ps = <<>> THEN <<>>
    ELSE (IF Head(ps).kind = "marker" THEN <<Head(ps).content>> ELSE <<>>)
         \o MarkerContents(Tail(ps))

\* C7 as stated: for every well-formed author-year marker, with or without
\* locator, the citation extracted for it is "Surname YYYY", the comma and
\* the locator stripped.
C7_LocatorStripped ==
    Extracted =>
        \A p \in AuthorPieces :
            /\ CountBefore(p) + 1 <= Len(citations)
            /\ citations[CountBefore(p) + 1] = Trim(BeforeComma(body_parts[p].content))

\* t ends with u.
EndsWith(t, u) == Len(t) >= Len(u) /\ SubSeq(t, Len(t) - Len(u) + 1, Len(t)) = u

\* C7 amended: for every well-formed author-year marker the result holds a
\* citation that ends with the text between the marker's parentheses,
\* "Surname YYYY" or "Surname YYYY, locator" with the comma and the locator
\* kept; when no unclosed parenthesis precedes the marker on its line the
\* citation is that text, at the marker's place in the result.
C7_ContentKept ==
    Extracted =>
        \A p \in AuthorPieces :
            /\ \E i \in 1..Len(citations) : EndsWith(citations[i], body_parts[p].content)
            /\ ClosedBefore(p) =>
                   /\ CountBefore(p) + 1 <= Len(citations)
                   /\ citations[CountBefore(p) + 1] = body_parts[p].content
                   /\ SubSeq(citations, 1, CountBefore(p))
                          = extract_citations_from_markdown(TextBefore(p))

\* C7 witness: a marker with a locator was extracted with its locator, after
\* another citation.
C7_Witness ==
    /\ Extracted
    /\ \E p \in AuthorPieces :
           /\ ClosedBefore(p)
           /\ CountBefore(p) = 1
           /\ body_parts[p].content # BeforeComma(body_parts[p].content)
           /\ citations[2] = body_parts[p].content

\* A body made of well-formed markers, plain text and line breaks only.
CleanBody == \A p \in 1..Len(body_parts) : body_parts[p].kind \in {"marker", "text", "nl"}

\* C8: the result holds one string per marker, in document order (earlier
\* lines first, left to right within a line), without a leading "see "; a
\* text without marker yields the empty list. For every body, each string
\* returned starts with "@" or an upper-case letter.
C8_OnePerMarkerInOrder ==
    Extracted =>
        /\ CleanBody => citations = MarkerContents(body_parts)
        /\ \A i \in 1..Len(citations) :
               /\ citations[i] # <<>>
               /\ citations[i][1] = "@" \/ IsUpper(citations[i][1])

\* C8 witness: markers on two lines, one of them with "see", extracted in
\* order.
C8_Witness ==
    /\ Extracted
    /\ CleanBody
    /\ Len(citations) = 2
    /\ \E p, q, r \in 1..Len(body_parts) :
           /\ p < q /\ q < r
           /\ body_parts[p].kind = "marker"
           /\ body_parts[q].kind = "nl"
           /\ body_parts[r].form = "see"

\* No "close" piece follows an "open" piece on the same line: every marker
\* lacking a parenthesis has only its opening or only its closing
\* parenthesis, or has them on different lines.
MalformedApart ==
    \A p, q \in 1..Len(body_parts) :
        (p < q /\ body_parts[p].kind = "open" /\ body_parts[q].kind = "close")
            => \E n \in (p + 1)..(q - 1) : body_parts[n].kind = "nl"

\* C9 as stated: markers with only an opening or only a closing parenthesis,
\* or with the two on different lines, contribute nothing, and the
\* well-formed markers of the text are all extracted.
C9_MalformedContributeNothing ==
    (Extracted /\ MalformedApart) => citations = MarkerContents(body_parts)

\* The part of C9 that holds: a marker with only a closing parenthesis
\* contributes nothing and hides nothing.
C9_CloseOnlyHarmless ==
    (Extracted /\ \A p \in 1..Len(body_parts) : body_parts[p].kind # "open")
        => citations = MarkerContents(body_parts)

-----------------------------------------------------------------------------
(* Claims about verify_citations_format (SpecFormat).                      *)

\* The part of citation c before its first comma (all of c without comma).
PartBeforeComma(c) ==
    LET commas == {i \in 1..Len(c) : c[i] = ","}
    IN  IF commas = {} THEN c ELSE SubSeq(c, 1, SetMin(commas) - 1)

\* t[a..b] is a whitespace-delimited token of t.
IsToken(t, a, b) ==
    /\ a <= b
    /\ \A i \in a..b : ~IsSpace(t[i])
    /\ a = 1 \/ IsSpace(t[a - 1])
    /\ b = Len(t) \/ IsSpace(t[b + 1])

\* The token is a numeral, with an optional plus sign, of an integer in
\* [1000, 9999]: its digits after the leading zeros are four, the first of
\* them not zero.
IsYearNumeral(w) ==
    LET ds == IF w[1] = "+" THEN Tail(w) ELSE w
        nz == {i \in 1..Len(ds) : ds[i] # "0"}
    IN  /\ ds # <<>>
        /\ \A i \in 1..Len(ds) : IsDigit(ds[i])
        /\ nz # {}
        /\ Len(ds) - SetMin(nz) + 1 = 4

HasYearToken(c) ==
    LET t == PartBeforeComma(c)
    IN  \E a, b \in 1..Len(t) : IsToken(t, a, b) /\ IsYearNumeral(SubSeq(t, a, b))

FormatChecked == pc \in {"set", "exit"} /\ citations_set = <<>> /\ bibliography = <<>> /\ body_parts = <<>>

\* C10: verify_citations_format succeeds exactly when every citation that
\* does not start with "@" has, before its first comma, a
\* whitespace-delimited token that parses as an integer from 1000 to 9999;
\* the citation named by a failure never starts with "@".
C10_FormatIffYearToken ==
    FormatChecked =>
        /\ (pc = "set") <=>
               \A i \in 1..Len(citations) :
                   StartsWith(citations[i], <<"@">>) \/ HasYearToken(citations[i])
        /\ pc = "exit" =>
               /\ outcome.kind = "exit_malformed"
               /\ ~StartsWith(outcome.detail, <<"@">>)
               /\ ~HasYearToken(outcome.detail)
               /\ outcome.detail \in Range(citations)

\* C10 witness: a list whose first citation is a key without year and whose
\* second citation has no year is rejected for the second citation.
C10_Witness ==
    /\ FormatChecked
    /\ pc = "exit"
    /\ Len(citations) = 2
    /\ StartsWith(citations[1], <<"@">>)
    /\ ~HasYearToken(citations[1])
    /\ outcome.detail = citations[2]

\* C10, the boundary years: a citation whose only number is 1000 or 9999
\* passes.
C10_BoundaryWitness ==
    /\ FormatChecked
    /\ pc = "set"
    /\ citations = <<<<"K", "a", "n", "t", " ", "1", "0", "0", "0">>,
                     <<"K", "a", "n", "t", " ", "2", "0", "2", "0", ",", " ", "1", "2">>>>

-----------------------------------------------------------------------------
(* Claims about match_citations_to_bibliography (SpecResolve).             *)

\* Citation c matches entry e: by key for an "@" citation, by first-author
\* surname and year otherwise.
Matches(c, e) ==
    IF StartsWith(c, <<"@">>)
    THEN c = <<"@">> \o e.key
    ELSE /\ e.author # <<>>
         /\ e.date.kind \in {"At", "After", "Before", "Between"}
         /\ c = e.author[1].name \o <<" ">> \o FormatI32(e.date.year)

MatchingEntries(c) == {j \in 1..Len(bibliography) : Matches(c, bibliography[j])}

\* The citations of the input that match no entry, in input order.
Unmatched == SelectSeq(citations_set, LAMBDA c : MatchingEntries(c) = {})

\* match_citations_to_bibliography has been applied to citations_set and
\* bibliography, and `matched` holds what came of it.
MatchDone == matched.kind \in {"ok", "err", "panic"} /\ body_parts = <<>> /\ docs = <<>>

\* C1 as stated: the matcher returns success exactly when every citation
\* matches at least one entry, and the success holds one MatchedCitation
\* per citation in input order.
C1_SuccessIffAllMatch ==
    MatchDone =>
        /\ (matched.kind = "ok") <=> (Unmatched = <<>>)
        /\ matched.kind = "ok" =>
               /\ Len(matched.matched) = Len(citations_set)
               /\ \A i \in 1..Len(citations_set) :
                      /\ matched.matched[i].citation_raw = citations_set[i]
                      /\ Matches(citations_set[i], matched.matched[i].entry)

\* What holds of C1: the statement is true of every call that returns.
C1_HoldsWhenReturning ==
    (MatchDone /\ matched.kind # "panic") =>
        /\ (matched.kind = "ok") <=> (Unmatched = <<>>)
        /\ matched.kind = "ok" =>
               /\ Len(matched.matched) = Len(citations_set)
               /\ \A i \in 1..Len(citations_set) :
                      /\ matched.matched[i].citation_raw = citations_set[i]
                      /\ Matches(citations_set[i], matched.matched[i].entry)

\* C2 as stated: when some citation matches no entry the matcher fails
\* with the error that names exactly the citations without a match, all
\* citations having been tried.
C2_ErrorNamesAllUnmatched ==
    (MatchDone /\ Unmatched # <<>>) =>
        /\ matched.kind = "err"
        /\ matched.unmatched = Unmatched

\* What holds of C2: an error that is returned names exactly the unmatched
\* citations.
C2_HoldsWhenReturning ==
    (MatchDone /\ matched.kind = "err") =>
        /\ Unmatched # <<>>
        /\ matched.unmatched = Unmatched

-----------------------------------------------------------------------------
(* Claims about disambiguate_matched_citations (SpecResolve).              *)

Disambiguated == pc = "try_from" /\ disambiguated.kind = "ok" /\ docs = <<>>

Alphabet ==
    <<"a", "b", "c", "d", "e", "f", "g", "h", "i", "j", "k", "l", "m",
      "n", "o", "p", "q", "r", "s", "t", "u", "v", "w", "x", "y", "z">>

\* Entries e and f share first-author surname and year.
SameGroup(e, f) == e.author[1].name = f.author[1].name /\ e.date.year = f.date.year

\* The distinct entries of the document's matched citations that share
\* surname and year with entry e.
GroupEntries(e) ==
    {r.entry : r \in {x \in Range(disambiguated.list) : SameGroup(x.entry, e)}}

\* The position of e among the entries of its group in ascending key order.
KeyRank(e) == 1 + Cardinality({f \in GroupEntries(e) : StrLess(f.key, e.key)})

BareYear(e) == FormatI32(e.date.year)

\* C4 as stated: the N distinct entries (2 <= N <= 26) of a group get the
\* suffixes "a" to the N-th letter in ascending key order: every citation
\* of an entry carries the letter of the entry's rank.
C4_SuffixPerEntry ==
    Disambiguated =>
        \A i \in 1..Len(disambiguated.list) :
            LET r == disambiguated.list[i]
                N == Cardinality(GroupEntries(r.entry))
            IN  (N >= 2 /\ N <= 26) =>
                    r.year_disambiguated
                        = BareYear(r.entry) \o <<Alphabet[KeyRank(r.entry)]>>

\* What holds of C4: when each entry of a group is cited by one citation,
\* the entries carry the letters of their ranks.
C4_HoldsWithoutRepeatedEntry ==
    Disambiguated =>
        \A i \in 1..Len(disambiguated.list) :
            LET r == disambiguated.list[i]
                N == Cardinality(GroupEntries(r.entry))
                cited == {j \in 1..Len(disambiguated.list) :
                             SameGroup(disambiguated.list[j].entry, r.entry)}
            IN  (N >= 2 /\ N <= 26 /\ Cardinality(cited) = N) =>
                    r.year_disambiguated
                        = BareYear(r.entry) \o <<Alphabet[KeyRank(r.entry)]>>

\* C5 as stated: a citation whose group holds one entry has the bare year
\* of the entry as its disambiguated year.
C5_SingleEntryBareYear ==
    Disambiguated =>
        \A i \in 1..Len(disambiguated.list) :
            LET r == disambiguated.list[i]
            IN  Cardinality(GroupEntries(r.entry)) = 1
                    => r.year_disambiguated = BareYear(r.entry)

\* What holds of C5: a citation that is the only citation of its group has
\* the bare year.
C5_HoldsForSingleCitation ==
    Disambiguated =>
        \A i \in 1..Len(disambiguated.list) :
            LET r == disambiguated.list[i]
                cited == {j \in 1..Len(disambiguated.list) :
                             SameGroup(disambiguated.list[j].entry, r.entry)}
            IN  Cardinality(cited) = 1 => r.year_disambiguated = BareYear(r.entry)

\* The orderings of list s.
Orderings(s) ==
    {[i \in 1..Len(s) |-> s[p[i]]] :
        p \in {q \in [1..Len(s) -> 1..Len(s)] : \A i, j \in 1..Len(s) : i # j => q[i] # q[j]}}

\* The display form and disambiguated year given to each raw citation.
Given(list) ==
    {<<r.citation_raw, r.citation_author_date_disambiguated, r.year_disambiguated>> :
        r \in Range(list)}

\* C6 as stated: every ordering of the input and every iteration order of
\* the internal maps gives each citation the same display form and
\* disambiguated year.
C6_SameForEveryOrdering ==
    Disambiguated =>
        \A cs \in Orderings(matched.matched) :
            \A order \in GroupOrders(cs) :
                Given(disambiguate_matched_citations(cs, order).list)
                    = Given(disambiguated.list)

\* What holds of C6: on one input list the result is the same for every
\* iteration order of the internal maps.
C6_HoldsForMapOrder ==
    Disambiguated =>
        \A order \in GroupOrders(matched.matched) :
            disambiguate_matched_citations(matched.matched, order) = disambiguated

-----------------------------------------------------------------------------
(* Claims about verify_mdx_files (Spec).                                   *)

\* An author-year citation of the current document that two or more
\* entries of the bibliography match.
IsAmbiguous(c) == ~StartsWith(c, <<"@">>) /\ Cardinality(MatchingEntries(c)) >= 2

\* The matcher has been applied to the citations of the current document.
MatchedCurrent ==
    /\ docs # <<>>
    /\ \/ pc \in {"disambiguate", "try_from", "panic"}
       \/ pc = "exit" /\ outcome.kind = "exit_unmatched"

\* C3 as stated: when a document holds an ambiguous author-year citation
\* (its other citations all matching), its verification succeeds: the
\* citation is bound to exactly one entry and the matched list goes to
\* disambiguate_matched_citations, which returns its list.
C3_AmbiguousVerifies ==
    \A c \in Range(citations_set) :
        (MatchedCurrent /\ IsAmbiguous(c) /\ Unmatched = <<>>) =>
            /\ pc \in {"disambiguate", "try_from"}
            /\ matched.kind = "ok"
            /\ Cardinality({i \in 1..Len(matched.matched) :
                               matched.matched[i].citation_raw = c}) = 1
            /\ pc = "try_from" =>
                   Cardinality({i \in 1..Len(disambiguated.list) :
                                   disambiguated.list[i].citation_raw = c}) = 1

\* What holds of C3: an ambiguous citation is never named by the
\* unmatched-citations error, and a matcher that returns has bound it to
\* one entry that matches it.
C3_HoldsNeverRejected ==
    \A c \in Range(citations_set) :
        (MatchedCurrent /\ IsAmbiguous(c)) =>
            /\ outcome.kind = "exit_unmatched" => c \notin Range(outcome.detail)
            /\ pc \in {"disambiguate", "try_from"} =>
                   /\ matched.kind = "ok"
                   /\ \E i \in 1..Len(matched.matched) :
                          /\ matched.matched[i].citation_raw = c
                          /\ Matches(c, matched.matched[i].entry)
                          /\ \A j \in 1..Len(matched.matched) :
                                 matched.matched[j].citation_raw = c => j = i

-----------------------------------------------------------------------------
(* check_parentheses_balance on short bodies (SpecBalance).                *)

MaxChars == 4

\* Characters of a body: the two parentheses, a letter and a line break.
BalanceChars == {"(", ")", "a", "\n"}

InitBalance ==
    /\ pc = "balance"
    /\ markdown \in SeqsUpTo(BalanceChars, MaxChars)
    /\ body_parts = <<>>
    /\ docs = <<>>
    /\ bibliography = <<>>
    /\ idx = 1
    /\ all_articles = <<>>
    /\ citations = <<>>
    /\ citations_set = <<>>
    /\ matched = NoResult
    /\ disambiguated = NoResult
    /\ outcome = Running
    /\ ProcIdle

NextBalance == CheckBalance

SpecBalance == InitBalance /\ [][NextBalance]_vars

\* The balance check has been applied to the body.
BalanceChecked == pc \in {"extract", "error"} /\ docs = <<>> /\ body_parts = <<>>

Rejected == pc = "error" /\ outcome.kind = "err_unbalanced"

\* The numbers of "(" and of ")" among the first k characters of t.
Opened(t, k) == Cardinality({i \in 1..k : t[i] = "("})

Closed(t, k) == Cardinality({i \in 1..k : t[i] = ")"})

\* C11 as stated: a body is rejected as unbalanced exactly when its number
\* of "(" differs from its number of ")".
C11_RejectedIffCountsDiffer ==
    BalanceChecked =>
        (Rejected <=> Opened(markdown, Len(markdown)) # Closed(markdown, Len(markdown)))

\* C11 amended: a body is rejected as unbalanced exactly when its numbers
\* of "(" and ")" differ or, reading from the left, a ")" comes at a place
\* where no "(" is open; equal numbers alone do not let a body pass.
C11_RejectedIffNotBalanced ==
    BalanceChecked =>
        (Rejected <=>
            \/ Opened(markdown, Len(markdown)) # Closed(markdown, Len(markdown))
            \/ \E k \in 1..Len(markdown) : Closed(markdown, k) > Opened(markdown, k))

\* C11 witness: a body with as many "(" as ")" is rejected, because it
\* closes before it opens.
C11_Witness ==
    /\ BalanceChecked
    /\ Rejected
    /\ Opened(markdown, Len(markdown)) = Closed(markdown, Len(markdown))
    /\ Opened(markdown, Len(markdown)) > 0

-----------------------------------------------------------------------------
(* Claims about entries without author or year (SpecResolve).              *)

\* Entry e has no author, no date, or a date that gives no year.
Defective(e) ==
    \/ e.author = <<>>
    \/ e.date.kind \notin {"At", "After", "Before", "Between"}

ResolveRun == docs = <<>> /\ body_parts = <<>> /\ markdown = <<>> /\ citations = <<>>

\* C12 as stated: with an entry without author or without resolvable year
\* in the bibliography, matching never crashes: the run ends with the
\* matched list or with the unmatched-citations error.
C12_NeverCrashes ==
    (ResolveRun /\ \E j \in 1..Len(bibliography) : Defective(bibliography[j])) =>
        /\ pc # "panic"
        /\ matched.kind \in {"none", "ok", "err"}
        /\ outcome.kind \in {"running", "exit_unmatched"}

\* What holds of C12: matching citations that are all in key form does not
\* crash, whatever the entries are.
C12_HoldsForKeysInMatch ==
    (ResolveRun /\ \A i \in 1..Len(citations_set) : StartsWith(citations_set[i], <<"@">>))
        => matched.kind # "panic"

-----------------------------------------------------------------------------
(* Claims about documents without index title (Spec).                      *)

\* The articles of the batch that have their index title.
TitledArticles == {i \in 1..Len(docs) : docs[i].is_article /\ docs[i].has_index_title}

ReturnedPaths == {all_articles[i].path : i \in 1..Len(all_articles)}

\* C13 as stated: an article without index title is left out and nothing
\* else: the run does not end with the missing-title error, and the batch
\* is returned with every other article in it.
C13_MissingTitleSkipsDocument ==
    docs # <<>> =>
        /\ outcome.kind # "err_missing_title"
        /\ pc = "done" => ReturnedPaths = TitledArticles

\* What holds of C13: a batch that is returned holds every article of the
\* batch, each with its index title.
C13_HoldsWhenReturned ==
    (docs # <<>> /\ pc = "done") =>
        /\ ReturnedPaths = {i \in 1..Len(docs) : docs[i].is_article}
        /\ ReturnedPaths = TitledArticles

-----------------------------------------------------------------------------
(* Rendering of the bibliography: sort_entries, entries_to_strings         *)
(* (transformers.rs) and generate_mdx_bibliography (inserters.rs).         *)
(* An entry to render has, beside key, entry_type, author and date, the    *)
(* fields title, publisher, address, journal, volume, number, pages,       *)
(* translator and doi: each the empty sequence when the field is absent,   *)
(* and a one-element sequence holding its value when present.              *)

MaxEntries == 2

\* char::to_lowercase, which follows Unicode.
ToLowerChar(c) ==
    IF IsUpper(c) THEN Chr(CharCode(c) + (CharCode("a") - CharCode("A")))
    ELSE IF c = "<E-acute>" THEN "<e-acute>"
    ELSE c

\* str::to_lowercase
ToLower(t) == [i \in 1..Len(t) |-> ToLowerChar(t[i])]

\* The sort key of sort_entries: the lower-cased surname of the first
\* author, the empty string for an entry without author.
SortName(mc) ==
    IF mc.entry.author = <<>> THEN <<>> ELSE ToLower(mc.entry.author[1].name)

\* sort_by(|a, b| a_last_name.cmp(&b_last_name)): a stable sort.
RECURSIVE InsertByName(_, _)
InsertByName(sorted, mc) ==
    IF sorted = <<>> THEN <<mc>>
    ELSE IF StrLess(SortName(mc), SortName(Head(sorted))) THEN <<mc>> \o sorted
    ELSE <<Head(sorted)>> \o InsertByName(Tail(sorted), mc)

RECURSIVE sort_entries(_)
sort_entries(es) ==
    IF es = <<>> THEN <<>>
    ELSE InsertByName(sort_entries(SubSeq(es, 1, Len(es) - 1)), es[Len(es)])

\* str::trim_end
TrimEnd(t) ==
    LET keep == {i \in 1..Len(t) : ~IsSpace(t[i])}
    IN  IF keep = {} THEN <<>> ELSE SubSeq(t, 1, SetMax(keep))

\* The persons from index i on, as generate_contributors lists several.
RECURSIVE ContributorList(_, _)
ContributorList(contributors, i) ==
    IF i > Len(contributors) THEN <<>>
    ELSE IF i = Len(contributors)
    THEN <<"a", "n", "d", " ">> \o contributors[i].given_name \o <<" ">>
         \o contributors[i].name \o <<".", " ">>
    ELSE contributors[i].given_name \o <<" ">> \o contributors[i].name \o <<",", " ">>
         \o ContributorList(contributors, i + 1)

generate_contributors(contributors, contributor_description) ==
    IF Len(contributors) > 1
    THEN contributor_description \o <<" ", "b", "y", " ">> \o ContributorList(contributors, 1)
    ELSE IF Len(contributors) = 1
    THEN contributor_description \o <<" ", "b", "y", " ">> \o contributors[1].given_name
         \o <<" ">> \o contributors[1].name \o <<".", " ">>
    ELSE <<>>

add_year(year) == year \o <<".", " ">>

add_translators(translators) == generate_contributors(translators, <<"T", "r", "a", "n", "s", "l", "a", "t", "e", "d">>)

add_doi(doi) ==
    IF doi # <<>> THEN <<" ", "h", "t", "t", "p", "s", ":", "/", "/", "d", "o", "i", ".", "o", "r", "g", "/">> \o doi \o <<".">> ELSE <<>>

add_book_title(title) == <<"_">> \o title \o <<"_", ".", " ">>

add_article_title(title) == <<"<quote>">> \o title \o <<"<quote>", ".", " ">>

add_address_and_publisher(address, publisher) ==
    address \o <<":", " ">> \o publisher \o <<".", " ">>

add_journal_volume_number_pages(journal, volume, number, pages) ==
    <<"_">> \o journal \o <<"_", " ">> \o FormatI32(volume) \o <<" ", "(">> \o number
    \o <<")", ":", " ">> \o pages \o <<".", " ">>

\* unwrap_or on an optional field.
UnwrapOr(field, default) == IF field = <<>> THEN default ELSE field[1]

Rendered(text) == [ok |-> TRUE, text |-> text]

RenderPanic == [ok |-> FALSE, text |-> <<>>]

\* transform_book_entry: the string, or a panic when author, title,
\* publisher or address is absent.
transform_book_entry(mc) ==
    LET e == mc.entry
    IN  IF e.author = <<>> \/ e.title = <<>> \/ e.publisher = <<>> \/ e.address = <<>>
        THEN RenderPanic
        ELSE Rendered(TrimEnd(
                 format_authors(e.author)
                 \o add_year(mc.year_disambiguated)
                 \o add_book_title(e.title[1])
                 \o add_translators(UnwrapOr(e.translator, <<>>))
                 \o add_address_and_publisher(e.address[1], e.publisher[1])
                 \o add_doi(UnwrapOr(e.doi, <<>>))))

\* transform_article_entry: the string, or a panic when author, title,
\* journal, volume, number or pages is absent.
transform_article_entry(mc) ==
    LET e == mc.entry
    IN  IF \/ e.author = <<>> \/ e.title = <<>> \/ e.journal = <<>>
           \/ e.volume = <<>> \/ e.number = <<>> \/ e.pages = <<>>
        THEN RenderPanic
        ELSE Rendered(TrimEnd(
                 format_authors(e.author)
                 \o add_year(mc.year_disambiguated)
                 \o add_article_title(e.title[1])
                 \o add_journal_volume_number_pages(e.journal[1], e.volume[1],
                                                    e.number[1], e.pages[1])
                 \o add_translators(UnwrapOr(e.translator, <<>>))
                 \o add_doi(UnwrapOr(e.doi, <<>>))))

\* The loop of entries_to_strings over the sorted entries.
RECURSIVE StringsOutput(_, _)
StringsOutput(sorted_entries, strings_output) ==
    IF sorted_entries = <<>> THEN [kind |-> "ok", strings |-> strings_output]
    ELSE LET mc == Head(sorted_entries)
             r == IF mc.entry.entry_type = "book" THEN transform_book_entry(mc)
                  ELSE transform_article_entry(mc)
         IN  IF mc.entry.entry_type \notin {"book", "article"}
             THEN StringsOutput(Tail(sorted_entries), strings_output)
             ELSE IF ~r.ok THEN [kind |-> "panic", strings |-> <<>>]
             ELSE StringsOutput(Tail(sorted_entries), Append(strings_output, r.text))

entries_to_strings(es) == StringsOutput(sort_entries(es), <<>>)

\* str::replace(from, to): the non-overlapping matches from the left,
\* found one after the other.
RECURSIVE Replace(_, _, _)
Replace(t, from, to) ==
    LET at == {i \in 1..(Len(t) - Len(from) + 1) : SubSeq(t, i, i + Len(from) - 1) = from}
    IN  IF at = {} THEN t
        ELSE LET i == SetMin(at)
             IN  SubSeq(t, 1, i - 1) \o to
                 \o Replace(SubSeq(t, i + Len(from), Len(t)), from, to)

BibliographyHeader ==
    <<"\n", "#", "#", " ", "B", "i", "b", "l", "i", "o", "g", "r", "a", "p", "h", "y", "\n", "\n", "<", "d", "i", "v", " ", "c", "l", "a", "s", "s", "N", "a", "m", "e", "=", "<quote>", "t", "e", "x", "t", "-", "s", "m", "<quote>", ">", "\n">>

BibliographyFooter == <<"<", "/", "d", "i", "v", ">", "\n">>

RECURSIVE BibliographyItems(_)
BibliographyItems(prepared_entries) ==
    IF prepared_entries = <<>> THEN <<>>
    ELSE <<"-", " ">> \o Head(prepared_entries) \o <<"\n">>
         \o BibliographyItems(Tail(prepared_entries))

\* The three replace() calls on the assembled block.
CollapsePeriods(t) ==
    Replace(Replace(Replace(t, <<".", ".">>, <<".">>),
                    <<".", ".", ".">>, <<".">>),
            <<".", ".", ".", ".">>, <<".">>)

\* generate_mdx_bibliography: [kind, strings, text], strings being the
\* prepared entries and text the block returned.
generate_mdx_bibliography(es) ==
    IF es = <<>> THEN [kind |-> "ok", strings |-> <<>>, text |-> <<>>]
    ELSE LET prepared == entries_to_strings(es)
         IN  IF prepared.kind = "panic"
             THEN [kind |-> "panic", strings |-> <<>>, text |-> <<>>]
             ELSE [kind |-> "ok", strings |-> prepared.strings,
                   text |-> CollapsePeriods(BibliographyHeader
                                            \o BibliographyItems(prepared.strings)
                                            \o BibliographyFooter)]

\* Entries to render.
Some(v) == <<v>>

None == <<>>

RenderEntry(key, entry_type, author, publisher) ==
    [key |-> key, entry_type |-> entry_type, author |-> author, date |-> DateAt(2020),
     title |-> Some(<<"T">>), publisher |-> publisher, address |-> Some(<<"A">>),
     journal |-> Some(<<"J">>), volume |-> Some(3), number |-> Some(<<"2">>),
     pages |-> Some(<<"1", "-", "9">>), translator |-> None, doi |-> None]

LowerHegel == Person(<<"h", "e", "g", "e", "l">>, <<"G">>)

\* A book by Kant; a book by "hegel" (lower case) whose publisher ends with
\* two periods; an article by Marx and Kant with a DOI; an entry of another
\* type; a book without author; an entry of another type without author;
\* a book with a translator whose publisher ends with three periods.
RenderK == RenderEntry(<<"k", "1">>, "book", <<Kant>>, Some(<<"P">>))

RenderH == RenderEntry(<<"h", "1">>, "book", <<LowerHegel>>, Some(<<"P", ".", ".">>))

RenderM ==
    [RenderEntry(<<"m", "1">>, "article", <<Marx, Kant>>, None) EXCEPT !.doi = Some(<<"d", ".">>)]

RenderX == RenderEntry(<<"x", "1">>, "misc", <<Hegel>>, None)

RenderN == RenderEntry(<<"n", "1">>, "book", <<>>, Some(<<"P">>))

RenderU == RenderEntry(<<"u", "1">>, "misc", <<>>, None)

RenderT ==
    [RenderEntry(<<"t", "1">>, "book", <<Kant>>, Some(<<"P", ".", ".", ".">>)) EXCEPT !.translator = Some(<<Hegel, Marx>>)]

Cited(citation_raw, display, year, entry) ==
    [citation_raw |-> citation_raw, citation_author_date_disambiguated |-> display,
     year_disambiguated |-> year, entry |-> entry]

\* The disambiguated citations handed to the renderer; the entry h1 is
\* cited by key and by author and year, as 2020a and 2020b.
RenderPool ==
    {Cited(<<"K", "a", "n", "t", " ", "2", "0", "2", "0">>, <<"K", "a", "n", "t", " ", "2", "0", "2", "0">>, <<"2", "0", "2", "0">>, RenderK),
     Cited(<<"@", "h", "1">>, <<"h", "e", "g", "e", "l", ",", " ", "G", ".", " ", " ", "2", "0", "2", "0", "a">>, <<"2", "0", "2", "0", "a">>, RenderH),
     Cited(<<"h", "e", "g", "e", "l", " ", "2", "0", "2", "0">>, <<"h", "e", "g", "e", "l", ",", " ", "G", ".", " ", " ", "2", "0", "2", "0", "b">>, <<"2", "0", "2", "0", "b">>, RenderH),
     Cited(<<"@", "m", "1">>, <<"M", "a", "r", "x", " ", "2", "0", "2", "0">>, <<"2", "0", "2", "0">>, RenderM),
     Cited(<<"@", "x", "1">>, <<"H", "e", "g", "e", "l", " ", "2", "0", "2", "0">>, <<"2", "0", "2", "0">>, RenderX),
     Cited(<<"@", "n", "1">>, <<"@", "n", "1">>, <<"2", "0", "2", "0">>, RenderN),
     Cited(<<"@", "u", "1">>, <<"@", "u", "1">>, <<"2", "0", "2", "0">>, RenderU),
     Cited(<<"@", "t", "1">>, <<"K", "a", "n", "t", " ", "2", "0", "2", "0">>, <<"2", "0", "2", "0">>, RenderT)}

RenderLists == DistinctSeqsUpTo(RenderPool, MaxEntries)

\* generate_mdx_bibliography applied to the entries.
RenderBibliography ==
    /\ pc = "render"
    /\ bib_html' = generate_mdx_bibliography(entries)
    /\ IF bib_html'.kind = "ok"
       THEN pc' = "rendered" /\ UNCHANGED outcome
       ELSE pc' = "panic" /\ outcome' = [kind |-> "panic", detail |-> <<>>]
    /\ UNCHANGED <<idx, entries, articles, files, inserter_outcome, writer,
                   rewrite, index_payload>>
    /\ UNCHANGED verifyvars

InitRender ==
    /\ mode = "process"
    /\ pc = "render"
    /\ entries \in RenderLists
    /\ bib_html = <<>>
    /\ articles = <<>>
    /\ files = <<>>
    /\ inserter_outcome = <<>>
    /\ writer = <<>>
    /\ rewrite = <<>>
    /\ index_payload = <<>>
    /\ docs = <<>>
    /\ idx = 1
    /\ all_articles = <<>>
    /\ markdown = <<>>
    /\ body_parts = <<>>
    /\ citations = <<>>
    /\ citations_set = <<>>
    /\ bibliography = <<>>
    /\ matched = NoResult
    /\ disambiguated = NoResult
    /\ outcome = Running

NextRender == RenderBibliography

SpecRender == InitRender /\ [][NextRender]_vars


-----------------------------------------------------------------------------
(* Claims about the rendered bibliography                                  *)

RenderDone == pc \in {"rendered", "panic"}

Supported(mc) == mc.entry.entry_type \in {"book", "article"}

\* The string of one supported entry that has its fields.
EntryString(mc) ==
    IF mc.entry.entry_type = "book" THEN transform_book_entry(mc).text
    ELSE transform_article_entry(mc).text

\* Ascending by the lower-cased first surname; the empty surname of an
\* entry without author is below every other.
Ascending(es) ==
    \A i, j \in 1..Len(es) : i < j => ~StrLess(SortName(es[j]), SortName(es[i]))

\* The strings are the supported entries in an ascending order, an entry
\* without author included.
InAscendingOrder(strings) ==
    \E p \in Orderings(SelectSeq(entries, Supported)) :
        /\ Ascending(p)
        /\ Len(strings) = Len(p)
        /\ \A i \in 1..Len(p) : p[i].entry.author # <<>> => strings[i] = EntryString(p[i])

\* C14: entries_to_strings renders the entries in ascending order of the
\* lower-cased surname of the first author, and an entry without author is
\* rendered before all entries that have one.
C14_AscendingAuthorlessFirst ==
    RenderDone => bib_html.kind = "ok" /\ InAscendingOrder(bib_html.strings)

\* Whenever entries_to_strings returns, its strings are in that order; a
\* supported entry without author never gets that far.
C14_HoldsWhenReturned ==
    pc = "rendered" =>
        /\ InAscendingOrder(bib_html.strings)
        /\ \A i \in 1..Len(entries) : Supported(entries[i]) => entries[i].entry.author # <<>>

\* Two entries given in descending order come out ascending, "hegel" in
\* lower case before "Kant".
C14_SortedWitness ==
    /\ pc = "rendered"
    /\ Len(entries) = 2
    /\ entries[1].entry = RenderK
    /\ entries[2].entry = RenderH
    /\ bib_html.strings = <<EntryString(entries[2]), EntryString(entries[1])>>


\* The number of list items ("- " at the start of a line) of a block.
Items(text) ==
    Cardinality({i \in 1..(Len(text) - 2) : SubSeq(text, i, i + 2) = <<"\n", "-", " ">>})

\* The cited entries of a supported type.
SupportedEntries == {entries[i].entry : i \in {j \in 1..Len(entries) : Supported(entries[j])}}

AllAuthored == \A i \in 1..Len(entries) : entries[i].entry.author # <<>>

\* C15: the rendered bibliography has exactly one item per cited entry of
\* type Book or Article and none for an entry of another type, and an
\* unsupported type never makes the rendering fail.
C15_OneItemPerSupportedEntry ==
    RenderDone /\ AllAuthored =>
        /\ bib_html.kind = "ok"
        /\ Items(bib_html.text) = Cardinality(SupportedEntries)

\* There is one item per matched citation of a supported entry, none for
\* the others, and no failure where every supported entry has an author.
C15_HoldsPerCitation ==
    /\ pc = "rendered" => Items(bib_html.text) = Len(SelectSeq(entries, Supported))
    /\ pc = "panic" => \E i \in 1..Len(entries) :
                           Supported(entries[i]) /\ entries[i].entry.author = <<>>

\* An entry of another type next to a book: one item.
C15_SkippedWitness ==
    /\ pc = "rendered"
    /\ Len(entries) = 2
    /\ entries[1].entry = RenderX
    /\ entries[2].entry = RenderK
    /\ Items(bib_html.text) = 1


\* The positions of a block where a period follows a period.
AdjacentPeriods(text) == {i \in 1..(Len(text) - 1) : text[i] = "." /\ text[i + 1] = "."}

\* The block before the replace() calls.
Assembled ==
    BibliographyHeader \o BibliographyItems(bib_html.strings) \o BibliographyFooter

\* C16: no two periods are adjacent in the block that
\* generate_mdx_bibliography returns, whatever the length of the runs in
\* the concatenated text.
C16_NoAdjacentPeriods ==
    pc = "rendered" => AdjacentPeriods(bib_html.text) = {}

\* A run of exactly two periods is collapsed to one: where the assembled
\* text has no three periods in a row, the block has no two.
C16_HoldsForRunsOfTwo ==
    pc = "rendered" /\ (\A i \in AdjacentPeriods(Assembled) : i + 1 \notin AdjacentPeriods(Assembled))
        => AdjacentPeriods(bib_html.text) = {}

\* The publisher "P.." followed by the period of add_address_and_publisher
\* gives a run of three, of which two are left.
C16_RunOfThreeWitness ==
    /\ pc = "rendered"
    /\ Len(entries) = 1
    /\ entries[1].entry = RenderH
    /\ AdjacentPeriods(Assembled) # {}
    /\ Cardinality(AdjacentPeriods(bib_html.text)) = 1


-----------------------------------------------------------------------------
(* process_mdx_files                                                       *)

MaxArticles == 2

\* str::contains
Contains(t, p) == \E i \in 1..(Len(t) - Len(p) + 1) : SubSeq(t, i, i + Len(p) - 1) = p

\* One block of generate_mdx_authors, for a metadata field that is present.
AuthorsBlock(heading, field) ==
    IF field = <<>> THEN <<>> ELSE <<"\n">> \o heading \o <<"\n">> \o field[1] \o <<"\n">>

generate_mdx_authors(metadata) ==
    AuthorsBlock(<<"*", "*", "A", "u", "t", "h", "o", "r", "s", "*", "*", " ", " ">>, metadata.authors)
    \o AuthorsBlock(<<"*", "*", "E", "d", "i", "t", "o", "r", "s", "*", "*", " ", " ">>, metadata.editors)
    \o AuthorsBlock(<<"*", "*", "C", "o", "n", "t", "r", "i", "b", "u", "t", "o", "r", "s", "*", "*", " ", " ">>, metadata.contributors)

FootnoteMarker == <<"[", "^", "1", "]">>

NotesHeading == <<"\n", "*", "*", "N", "o", "t", "e", "s", "*", "*">>

\* A variant that emits the heading for every body.
generate_notes_heading_Always(md) == NotesHeading

\* generate_notes_heading: the heading once, if some line holds the marker.
generate_notes_heading(md) ==
    IF \E i \in 1..Len(Lines(md)) : Contains(Lines(md)[i], FootnoteMarker)
    THEN NotesHeading ELSE <<>>

\* transform_keys_to_citations: the file content in which each citation
\* given by key stands in its display form.
RECURSIVE KeysToCitations(_, _)
KeysToCitations(content, es) ==
    IF es = <<>> THEN content
    ELSE KeysToCitations(
             IF StartsWith(Head(es).citation_raw, <<"@">>)
             THEN Replace(content, Head(es).citation_raw,
                          Head(es).citation_author_date_disambiguated)
             ELSE content,
             Tail(es))

transform_keys_to_citations(article) ==
    KeysToCitations(article.full_file_content, article.entries_disambiguated)

\* The three pieces of the payload of process_mdx_file.
PayloadPieces(article) ==
    [bibliography |-> generate_mdx_bibliography(article.entries_disambiguated),
     authors |-> generate_mdx_authors(article.metadata),
     notes |-> generate_notes_heading(article.markdown_content)]

mdx_payload(article) ==
    PayloadPieces(article).bibliography.text \o PayloadPieces(article).authors
    \o PayloadPieces(article).notes

updated_markdown_content(article) ==
    transform_keys_to_citations(article) \o <<"\n">> \o mdx_payload(article)

Bump(n, piece) == IF piece # <<>> THEN n + 1 ELSE n

\* process_mdx_file up to the call of write_html_to_mdx_file: the payload
\* is assembled and counted; an empty payload ends the call.
ProcessFile ==
    /\ pc = "process"
    /\ idx <= Len(articles)
    /\ LET article == articles[idx]
           pieces == PayloadPieces(article)
           counted == [inserter_outcome EXCEPT
                          !.total_bibliographies_inserted = Bump(@, pieces.bibliography.text),
                          !.total_authors_inserted = Bump(@, pieces.authors),
                          !.total_notes_headings_inserted = Bump(@, pieces.notes)]
       IN  IF pieces.bibliography.kind = "panic"
           THEN /\ pc' = "panic"
                /\ outcome' = [kind |-> "panic", detail |-> <<>>]
                /\ UNCHANGED <<idx, inserter_outcome, writer>>
           ELSE IF mdx_payload(article) = <<>>
           THEN /\ inserter_outcome' = [counted EXCEPT !.total_empty_payloads = @ + 1]
                /\ idx' = idx + 1
                /\ UNCHANGED <<pc, outcome, writer>>
           ELSE /\ inserter_outcome' = counted
                /\ writer' = [path |-> article.path,
                              content |-> updated_markdown_content(article)]
                /\ pc' = "create"
                /\ UNCHANGED <<idx, outcome>>
    /\ UNCHANGED <<entries, bib_html, articles, files, rewrite, index_payload>>
    /\ UNCHANGED verifyvars

\* write_html_to_mdx_file: File::create truncates the file, and write_all
\* puts the content into the buffer of the BufWriter (texts below its
\* capacity); an Err of File::create leaves the file and ends the process.
CreateFile ==
    /\ pc = "create"
    /\ \/ /\ files' = [files EXCEPT ![writer.path] = <<>>]
          /\ pc' = "drop"
          /\ UNCHANGED outcome
       \/ /\ pc' = "exit"
          /\ outcome' = [kind |-> "exit", detail |-> <<>>]
          /\ UNCHANGED files
    /\ UNCHANGED <<idx, entries, bib_html, articles, inserter_outcome, writer,
                   rewrite, index_payload>>
    /\ UNCHANGED verifyvars

\* What a flush can have written when it ends: everything, or, when it
\* fails, nothing or a part (of the possible parts, the first half).
FlushedLengths(content) == {0, Len(content) \div 2, Len(content)}

\* A variant that returns without counting the article.
DropWriter_Uncounted ==
    /\ pc = "drop"
    /\ \E n \in FlushedLengths(writer.content) :
           files' = [files EXCEPT ![writer.path] = SubSeq(writer.content, 1, n)]
    /\ idx' = idx + 1
    /\ writer' = <<>>
    /\ pc' = "process"
    /\ UNCHANGED <<outcome, entries, bib_html, articles, rewrite, index_payload,
                   inserter_outcome>>
    /\ UNCHANGED verifyvars

\* The BufWriter is dropped at the return of write_html_to_mdx_file: the
\* buffer is flushed, an error of the flush is ignored and leaves what was
\* written before it; Ok(()) is returned and the article is counted.
DropWriter ==
    /\ pc = "drop"
    /\ \E n \in FlushedLengths(writer.content) :
           files' = [files EXCEPT ![writer.path] = SubSeq(writer.content, 1, n)]
    /\ inserter_outcome' = [inserter_outcome EXCEPT !.total_articles_processed = @ + 1]
    /\ idx' = idx + 1
    /\ writer' = <<>>
    /\ pc' = "process"
    /\ UNCHANGED <<outcome, entries, bib_html, articles, rewrite, index_payload>>
    /\ UNCHANGED verifyvars

\* The end of the loop of process_mdx_files.
FinishProcess ==
    /\ pc = "process"
    /\ idx > Len(articles)
    /\ pc' = "processed"
    /\ UNCHANGED <<idx, outcome>>
    /\ UNCHANGED procvars
    /\ UNCHANGED verifyvars

\* Articles to process.
Frontmatter == <<"-", "-", "-", "\n">>

NoMetadata == [authors |-> None, editors |-> None, contributors |-> None]

Article(path, metadata, markdown_content, entries_disambiguated) ==
    [path |-> path, metadata |-> metadata, markdown_content |-> markdown_content,
     entries_disambiguated |-> entries_disambiguated,
     full_file_content |-> Frontmatter \o markdown_content]

\* An article with nothing to insert; one whose body holds "[^10]" only;
\* one with a footnote marker on its second line; one with an editor; one
\* citing the book k1 by key.
ProcessPool ==
    {Article(<<"a">>, NoMetadata, <<"x">>, <<>>),
     Article(<<"b">>, NoMetadata, <<"[", "^", "1", "0", "]">>, <<>>),
     Article(<<"c">>, NoMetadata, <<"y", "\n", "[", "^", "1", "]">>, <<>>),
     Article(<<"d">>, [NoMetadata EXCEPT !.editors = Some(<<"E">>)], <<"z">>, <<>>),
     Article(<<"e">>, NoMetadata, <<"(", "@", "k", "1", ")">>,
             <<Cited(<<"@", "k", "1">>, <<"K", "a", "n", "t", " ", "2", "0", "2", "0">>, <<"2", "0", "2", "0">>, RenderK)>>)}

NoneInserted ==
    [total_articles_processed |-> 0, total_bibliographies_inserted |-> 0,
     total_authors_inserted |-> 0, total_notes_headings_inserted |-> 0,
     total_empty_payloads |-> 0]

\* The files on disk hold what verify_mdx_files read from them.
OnDisk(as) ==
    [p \in {as[i].path : i \in 1..Len(as)} |->
        (CHOOSE a \in Range(as) : a.path = p).full_file_content]

InitProcess ==
    /\ mode = "process"
    /\ pc = "process"
    /\ articles \in DistinctSeqsUpTo(ProcessPool, MaxArticles)
    /\ files = OnDisk(articles)
    /\ inserter_outcome = NoneInserted
    /\ writer = <<>>
    /\ idx = 1
    /\ entries = <<>>
    /\ bib_html = <<>>
    /\ rewrite = <<>>
    /\ index_payload = <<>>
    /\ docs = <<>>
    /\ all_articles = <<>>
    /\ markdown = <<>>
    /\ body_parts = <<>>
    /\ citations = <<>>
    /\ citations_set = <<>>
    /\ bibliography = <<>>
    /\ matched = NoResult
    /\ disambiguated = NoResult
    /\ outcome = Running

NextProcess == ProcessFile \/ CreateFile \/ DropWriter \/ FinishProcess

SpecProcess == InitProcess /\ [][NextProcess]_vars


-----------------------------------------------------------------------------
(* Claims about process_mdx_files                                          *)

\* An article without citations, without authors, editors or contributors
\* and without the marker "[^1]" in its body.
Bare(article) ==
    /\ article.entries_disambiguated = <<>>
    /\ article.metadata.authors = None
    /\ article.metadata.editors = None
    /\ article.metadata.contributors = None
    /\ ~Contains(article.markdown_content, FootnoteMarker)

\* C17: for an article without citations, without authors, editors or
\* contributors and without "[^1]" in its body, process_mdx_file returns
\* without starting a write: every file keeps its content,
\* total_empty_payloads grows by one and total_articles_processed keeps
\* its value.
C17_BareArticleLeftAlone ==
    [][(pc = "process" /\ idx <= Len(articles) /\ Bare(articles[idx])) =>
          /\ files' = files
          /\ pc' = "process"
          /\ writer' = writer
          /\ idx' = idx + 1
          /\ inserter_outcome'.total_empty_payloads
                 = inserter_outcome.total_empty_payloads + 1
          /\ inserter_outcome'.total_articles_processed
                 = inserter_outcome.total_articles_processed]_vars

\* The article whose body holds "[^10]" has been handled after one whose
\* file was written: counted as empty, its file as it was.
C17_Witness ==
    /\ pc = "process"
    /\ idx = 3
    /\ ~Bare(articles[1])
    /\ Bare(articles[2])
    /\ articles[2].markdown_content = <<"[", "^", "1", "0", "]">>
    /\ inserter_outcome.total_empty_payloads = 1
    /\ inserter_outcome.total_articles_processed = 1
    /\ files[articles[2].path] = articles[2].full_file_content


\* The file of an article holds the content read from it, or the whole
\* content that process_mdx_file writes.
Whole(article) ==
    files[article.path] \in {article.full_file_content, updated_markdown_content(article)}

\* C18: at every point of a run, a failed write and an exit included, each
\* file holds its complete original content or that content followed by
\* the full payload, never a truncated or partial text.
C18_FilesAlwaysWhole ==
    \A i \in 1..Len(articles) : Whole(articles[i])

\* The files of the articles not yet reached are whole, and so is every
\* file when File::create fails and the process exits.
C18_HoldsForUntouched ==
    /\ \A i \in 1..Len(articles) : i > idx => Whole(articles[i])
    /\ pc = "exit" => Whole(articles[idx])

\* A flush that failed half way has been ignored: the article is counted
\* as processed and its file holds half of the content.
C18_PartialCounted ==
    /\ pc = "processed"
    /\ Len(articles) = 1
    /\ inserter_outcome.total_articles_processed = 1
    /\ ~Whole(articles[1])
    /\ files[articles[1].path] # <<>>


-----------------------------------------------------------------------------
(* generate_index_to_file                                                  *)

MaxIndexed == 3

LowerChars == {ToLowerChar(c) : c \in UpperChars}

\* char::to_ascii_uppercase and char::to_ascii_lowercase: only the ASCII
\* letters change.
ToAsciiUppercase(c) ==
    IF c \in LowerChars THEN Chr(CharCode(c) - (CharCode("a") - CharCode("A"))) ELSE c

ToAsciiLowercase(c) ==
    IF IsUpper(c) THEN Chr(CharCode(c) + (CharCode("a") - CharCode("A"))) ELSE c

get_index_data(article) ==
    [path |-> article.path, index_title |-> article.metadata.index_title]

\* sorted_by on the lower-cased index titles: a stable sort.
RECURSIVE InsertByTitle(_, _)
InsertByTitle(sorted, index_data) ==
    IF sorted = <<>> THEN <<index_data>>
    ELSE IF StrLess(ToLower(index_data.index_title), ToLower(Head(sorted).index_title))
    THEN <<index_data>> \o sorted
    ELSE <<Head(sorted)>> \o InsertByTitle(Tail(sorted), index_data)

RECURSIVE SortedByTitle(_)
SortedByTitle(all) ==
    IF all = <<>> THEN <<>>
    ELSE InsertByTitle(SortedByTitle(SubSeq(all, 1, Len(all) - 1)), all[Len(all)])

all_index_data_sorted(arts) ==
    SortedByTitle([i \in 1..Len(arts) |-> get_index_data(arts[i])])

MdxExtension == <<".", "m", "d", "x">>

\* The link of generate_index_entry: replace() takes out every ".mdx" of
\* the path; replacen(from, to, 1) on a link that starts with `from`
\* replaces that start.
Link(path, rw) ==
    LET link == Replace(path, MdxExtension, <<>>)
    IN  IF rw # None /\ StartsWith(link, rw[1].from)
        THEN rw[1].to \o SubSeq(link, Len(rw[1].from) + 1, Len(link))
        ELSE link

generate_index_entry(index_data, rw) ==
    <<"\n", "[">> \o index_data.index_title \o <<"]", "(">> \o Link(index_data.path, rw)
    \o <<")", "\n">>

Heading(letter) == <<"\n", "#", "#", " ", letter, "\n">>

\* The loop over the sorted index data: the pieces pushed to mdx_html, a
\* heading (with its letter) or an entry (with its title and its link).
RECURSIVE IndexPieces(_, _, _, _)
IndexPieces(sorted, current_letter, rw, pieces) ==
    IF sorted = <<>> THEN pieces
    ELSE LET index_data == Head(sorted)
             first_letter == IF index_data.index_title = <<>> THEN None
                             ELSE Some(ToAsciiUppercase(index_data.index_title[1]))
             opens == first_letter # current_letter /\ first_letter # None
             entry == [kind |-> "entry", letter |-> <<>>,
                       index_title |-> index_data.index_title,
                       link |-> Link(index_data.path, rw),
                       text |-> generate_index_entry(index_data, rw)]
             heading == [kind |-> "heading", letter |-> first_letter,
                         index_title |-> <<>>, link |-> <<>>,
                         text |-> Heading(first_letter[1])]
         IN  IndexPieces(Tail(sorted),
                         IF opens THEN first_letter ELSE current_letter,
                         rw,
                         IF opens THEN pieces \o <<heading, entry>>
                         ELSE Append(pieces, entry))

\* The iteration of the BTreeSet of section letters: ascending.
RECURSIVE LettersAscending(_)
LettersAscending(letters) ==
    IF letters = {} THEN <<>>
    ELSE LET least == CHOOSE c \in letters : \A d \in letters : CharCode(c) <= CharCode(d)
         IN  <<least>> \o LettersAscending(letters \ {least})

section_letters(pieces) ==
    {pieces[i].letter[1] : i \in {j \in 1..Len(pieces) : pieces[j].kind = "heading"}}

JumpLink(letter) == <<"[", letter, "]", "(", "#", ToAsciiLowercase(letter), ")">>

\* join(" · ")
RECURSIVE Join(_, _)
Join(parts, separator) ==
    IF parts = <<>> THEN <<>>
    ELSE IF Len(parts) = 1 THEN parts[1]
    ELSE parts[1] \o separator \o Join(Tail(parts), separator)

jump_links(pieces) ==
    Join([i \in 1..Len(LettersAscending(section_letters(pieces))) |->
              JumpLink(LettersAscending(section_letters(pieces))[i])],
         <<" ", "<middot>", " ">>)

intro(article_count, links) ==
    <<"\n", "_", "T", "h", "i", "s", " ", "i", "n", "d", "e", "x", " ", "c", "o", "n", "t", "a", "i", "n", "s", " ", "*", "*">>
    \o FormatNat(article_count)
    \o <<" ", "a", "r", "t", "i", "c", "l", "e", "s", "*", "*", ",", " ", "o", "r", "g", "a", "n", "i", "z", "e", "d", " ", "a", "l", "p", "h", "a", "b", "e", "t", "i", "c", "a", "l", "l", "y", " ", "b", "y", " ", "t", "i", "t", "l", "e", ".", " ", "U", "s", "e", " ", "t", "h", "e", " ", "l", "i", "n", "k", "s", " ", "b", "e", "l", "o", "w", " ", "t", "o", " ", "j", "u", "m", "p", " ", "t", "o", " ", "a", " ", "s", "e", "c", "t", "i", "o", "n", ":", "_", "\n", "\n">>
    \o links

mdx_html(pieces) == Flatten([i \in 1..Len(pieces) |-> pieces[i].text])

final_payload(arts, rw) ==
    LET pieces == IndexPieces(all_index_data_sorted(arts), None, rw, <<>>)
    IN  intro(Len(arts), jump_links(pieces)) \o <<"\n", "\n">> \o mdx_html(pieces)

IndexFilePath == <<"i", "n", "d", "e", "x">>

\* generate_index_to_file up to the call of append_to_file.
GenerateIndex ==
    /\ pc = "index"
    /\ index_payload' =
           [sorted |-> all_index_data_sorted(articles),
            pieces |-> IndexPieces(all_index_data_sorted(articles), None, rewrite, <<>>),
            jump_links |-> jump_links(IndexPieces(all_index_data_sorted(articles), None,
                                                  rewrite, <<>>)),
            final_payload |-> final_payload(articles, rewrite)]
    /\ pc' = "append"
    /\ UNCHANGED <<idx, outcome, entries, bib_html, articles, files, inserter_outcome,
                   writer, rewrite>>
    /\ UNCHANGED verifyvars

\* append_to_file: the payload and a line break are appended with
\* writeln!; an Err ends the process.
AppendToFile ==
    /\ pc = "append"
    /\ \/ /\ files' = [files EXCEPT
                          ![IndexFilePath] = @ \o index_payload.final_payload \o <<"\n">>]
          /\ pc' = "indexed"
          /\ UNCHANGED outcome
       \/ /\ pc' = "exit"
          /\ outcome' = [kind |-> "exit", detail |-> <<>>]
          /\ UNCHANGED files
    /\ UNCHANGED <<idx, entries, bib_html, articles, inserter_outcome, writer, rewrite,
                   index_payload>>
    /\ UNCHANGED verifyvars

\* Articles to index.
IndexMetadata(index_title) ==
    [authors |-> None, editors |-> None, contributors |-> None, index_title |-> index_title]

Indexed(path, index_title) == Article(path, IndexMetadata(index_title), <<"x">>, <<>>)

\* The three titles "Apple Essay", "banana Notes" and "apple Pie"; a file
\* in a directory whose name ends in ".mdx"; two titles that begin with
\* the upper-case and the lower-case e with acute accent; an empty title;
\* a title that begins with an underscore.
IndexPool ==
    {Indexed(<<"d", "/", "f", ".", "m", "d", "x">>, <<"A", "p", "p", "l", "e", " ", "E", "s", "s", "a", "y">>),
     Indexed(<<"d", "/", "d", "/", "g", ".", "m", "d", "x">>, <<"b", "a", "n", "a", "n", "a", " ", "N", "o", "t", "e", "s">>),
     Indexed(<<"e", "/", "d", "/", "f", ".", "m", "d", "x">>, <<"a", "p", "p", "l", "e", " ", "P", "i", "e">>),
     Indexed(<<"d", "/", "h", ".", "m", "d", "x", "/", "i", ".", "m", "d", "x">>, <<"B", "a", "n", "a", "n", "a">>),
     Indexed(<<"d", "/", "j", ".", "m", "d", "x">>, <<"<E-acute>", "m", "i", "l", "e">>),
     Indexed(<<"d", "/", "k", ".", "m", "d", "x">>, <<"<e-acute>", "m", "i", "l", "e">>),
     Indexed(<<"d", "/", "l", ".", "m", "d", "x">>, <<>>),
     Indexed(<<"d", "/", "m", ".", "m", "d", "x">>, <<"_", "n", "o", "t", "e", "s">>)}

\* No rewrite, or the prefix "d/" rewritten to "x/".
Rewrites == {None, Some([from |-> <<"d", "/">>, to |-> <<"x", "/">>])}

InitIndex ==
    /\ mode = "process"
    /\ pc = "index"
    /\ articles \in DistinctSeqsUpTo(IndexPool, MaxIndexed)
    /\ rewrite \in Rewrites
    /\ files = [p \in {IndexFilePath} |-> <<>>]
    /\ index_payload = <<>>
    /\ inserter_outcome = <<>>
    /\ writer = <<>>
    /\ idx = 1
    /\ entries = <<>>
    /\ bib_html = <<>>
    /\ docs = <<>>
    /\ all_articles = <<>>
    /\ markdown = <<>>
    /\ body_parts = <<>>
    /\ citations = <<>>
    /\ citations_set = <<>>
    /\ bibliography = <<>>
    /\ matched = NoResult
    /\ disambiguated = NoResult
    /\ outcome = Running

NextIndex == GenerateIndex \/ AppendToFile

SpecIndex == InitIndex /\ [][NextIndex]_vars


-----------------------------------------------------------------------------
(* Claims about the index                                                  *)

IndexBuilt == pc \in {"append", "indexed", "exit"} /\ index_payload # <<>>

\* char::to_uppercase, which follows Unicode.
ToUpperChar(c) == IF c = "<e-acute>" THEN "<E-acute>" ELSE ToAsciiUppercase(c)

EntryPieces(pieces) == {i \in 1..Len(pieces) : pieces[i].kind = "entry"}

HeadingPieces(pieces) == {i \in 1..Len(pieces) : pieces[i].kind = "heading"}

\* The letter of the heading an entry stands under: that of the last
\* heading before it, None where there is no heading before it.
HeadingOver(pieces, i) ==
    IF {j \in HeadingPieces(pieces) : j < i} = {} THEN None
    ELSE pieces[SetMax({j \in HeadingPieces(pieces) : j < i})].letter

\* The entries are in the order of their lower-cased titles.
TitlesAscending(pieces) ==
    \A i, j \in EntryPieces(pieces) :
        i < j => ~StrLess(ToLower(pieces[j].index_title), ToLower(pieces[i].index_title))

\* Each entry (with a title that has a first character) stands under the
\* heading of the upper-case form of that character, and no letter has
\* two headings.
UnderUppercaseHeading(pieces, titled) ==
    /\ \A i \in EntryPieces(pieces) :
           titled[i] => HeadingOver(pieces, i) = Some(ToUpperChar(pieces[i].index_title[1]))
    /\ \A i, j \in HeadingPieces(pieces) : pieces[i].letter = pieces[j].letter => i = j

HasFirst(pieces) == [i \in 1..Len(pieces) |-> pieces[i].index_title # <<>>]

AsciiFirstLetter(pieces) ==
    [i \in 1..Len(pieces) |->
        pieces[i].index_title # <<>>
        /\ \E k \in 1..Len(Ascii) : Ascii[k] = pieces[i].index_title[1]]

\* C19: generate_index_to_file emits the entries sorted by lower-cased
\* index title, each under the heading of the upper-case first character
\* of its title, so that titles differing in the case of the first letter
\* share one heading.
C19_SortedUnderUppercaseHeadings ==
    IndexBuilt =>
        /\ TitlesAscending(index_payload.pieces)
        /\ UnderUppercaseHeading(index_payload.pieces, HasFirst(index_payload.pieces))

\* The order holds for all titles, and the headings for the titles whose
\* first character is an ASCII character, where the batch has no title
\* that begins with another character.
C19_HoldsForAsciiTitles ==
    IndexBuilt =>
        /\ TitlesAscending(index_payload.pieces)
        /\ (\A i \in EntryPieces(index_payload.pieces) :
                index_payload.pieces[i].index_title = <<>>
                \/ AsciiFirstLetter(index_payload.pieces)[i])
           => UnderUppercaseHeading(index_payload.pieces,
                                    AsciiFirstLetter(index_payload.pieces))

\* "Apple Essay", "banana Notes" and "apple Pie" come out as the heading
\* A, the two apple titles, the heading B and the banana title.
C19_AppleWitness ==
    /\ IndexBuilt
    /\ Len(articles) = 3
    /\ articles[1].metadata.index_title = <<"a", "p", "p", "l", "e", " ", "P", "i", "e">>
    /\ articles[2].metadata.index_title = <<"b", "a", "n", "a", "n", "a", " ", "N", "o", "t", "e", "s">>
    /\ articles[3].metadata.index_title = <<"A", "p", "p", "l", "e", " ", "E", "s", "s", "a", "y">>
    /\ [i \in 1..Len(index_payload.pieces) |->
           IF index_payload.pieces[i].kind = "heading"
           THEN index_payload.pieces[i].letter
           ELSE index_payload.pieces[i].index_title]
       = <<<<"A">>, <<"A", "p", "p", "l", "e", " ", "E", "s", "s", "a", "y">>,
           <<"a", "p", "p", "l", "e", " ", "P", "i", "e">>,
           <<"B">>, <<"b", "a", "n", "a", "n", "a", " ", "N", "o", "t", "e", "s">>>>


\* The path without its extension ".mdx": the path of a verified article
\* ends with it.
WithoutExtension(path) ==
    IF EndsWith(path, MdxExtension) THEN SubSeq(path, 1, Len(path) - Len(MdxExtension))
    ELSE path

\* The link target the rewrite rule describes for a path.
ExpectedLink(path, rw) ==
    IF rw # None /\ StartsWith(path, rw[1].from)
    THEN rw[1].to \o SubSeq(WithoutExtension(path), Len(rw[1].from) + 1,
                            Len(WithoutExtension(path)))
    ELSE WithoutExtension(path)

\* The entry pieces are the sorted index data, one for one.
EntryOf(k) ==
    LET at == {i \in EntryPieces(index_payload.pieces) :
                   Cardinality({j \in EntryPieces(index_payload.pieces) : j <= i}) = k}
    IN  index_payload.pieces[CHOOSE i \in at : TRUE]

\* C20: the link of an index entry is the path of the document with the
\* extension ".mdx" removed and, where a rewrite (from, to) is configured
\* and the path begins with `from`, with that leading prefix and nothing
\* else replaced by `to`; the title is the index title as it is.
C20_LinkIsPathRewritten ==
    IndexBuilt =>
        \A k \in 1..Len(index_payload.sorted) :
            /\ EntryOf(k).link = ExpectedLink(index_payload.sorted[k].path, rewrite)
            /\ EntryOf(k).index_title = index_payload.sorted[k].index_title

\* The claim holds for every path in which ".mdx" occurs only as the
\* extension, and the title is never changed.
C20_HoldsForPlainPaths ==
    IndexBuilt =>
        \A k \in 1..Len(index_payload.sorted) :
            /\ EntryOf(k).index_title = index_payload.sorted[k].index_title
            /\ ~Contains(WithoutExtension(index_payload.sorted[k].path), MdxExtension)
               => EntryOf(k).link = ExpectedLink(index_payload.sorted[k].path, rewrite)

\* With the rewrite of "d/" to "x/": "d/d/g.mdx" gives "x/d/g" and
\* "e/d/f.mdx" gives "e/d/f".
C20_RewriteWitness ==
    /\ IndexBuilt
    /\ rewrite # None
    /\ Len(articles) = 2
    /\ articles[1].path = <<"d", "/", "d", "/", "g", ".", "m", "d", "x">>
    /\ articles[2].path = <<"e", "/", "d", "/", "f", ".", "m", "d", "x">>
    /\ EntryOf(1).link = <<"e", "/", "d", "/", "f">>
    /\ EntryOf(2).link = <<"x", "/", "d", "/", "g">>


-----------------------------------------------------------------------------
(* Further claims about disambiguate_matched_citations (SpecResolve).      *)

\* The display form of a citation that needs no suffix: surname and year
\* for a citation by key, the citation itself otherwise.
BareDisplay(r) ==
    IF StartsWith(r.citation_raw, <<"@">>)
    THEN r.entry.author[1].name \o <<" ">> \o BareYear(r.entry)
    ELSE r.citation_raw

\* The citations of the document that resolve to entry e.
CitationsOf(e) == {i \in 1..Len(disambiguated.list) : disambiguated.list[i].entry = e}

\* C21: letters are assigned only in a group of more than one distinct
\* entry: where several raw citations resolve to the one entry of their
\* group, the year stays bare and the display form gets no suffix.
C21_NoSuffixForOneEntry ==
    Disambiguated =>
        \A i \in 1..Len(disambiguated.list) :
            LET r == disambiguated.list[i]
            IN  (Cardinality(GroupEntries(r.entry)) = 1
                 /\ Cardinality(CitationsOf(r.entry)) > 1)
                    => /\ r.year_disambiguated = BareYear(r.entry)
                       /\ r.citation_author_date_disambiguated = BareDisplay(r)

\* A suffix is only given in a group of more than one citation.
C21_HoldsPerCitation ==
    Disambiguated =>
        \A i \in 1..Len(disambiguated.list) :
            LET r == disambiguated.list[i]
                cited == {j \in 1..Len(disambiguated.list) :
                             SameGroup(disambiguated.list[j].entry, r.entry)}
            IN  Cardinality(cited) = 1
                    => /\ r.year_disambiguated = BareYear(r.entry)
                       /\ r.citation_author_date_disambiguated = BareDisplay(r)


\* The citations of the document whose group holds the entry of r.
GroupCitations(r) ==
    {j \in 1..Len(disambiguated.list) : SameGroup(disambiguated.list[j].entry, r.entry)}

\* C22: for a citation of a group that needs disambiguation the display
\* form is the surname of the first author, one space, the year and the
\* suffix letter, as in "Hegel 1931a", without given name, comma or period.
C22_DisplayIsSurnameYearLetter ==
    Disambiguated =>
        \A i \in 1..Len(disambiguated.list) :
            LET r == disambiguated.list[i]
            IN  Cardinality(GroupEntries(r.entry)) >= 2
                    => r.citation_author_date_disambiguated
                           = r.entry.author[1].name \o <<" ">> \o r.year_disambiguated

\* The display form of such a citation is the author string of the
\* bibliography (format_authors, which ends in ". "), one space, and the
\* year with its letter.
C22_HoldsWithFormattedAuthors ==
    Disambiguated =>
        \A i \in 1..Len(disambiguated.list) :
            LET r == disambiguated.list[i]
            IN  Cardinality(GroupCitations(r)) >= 2
                    => /\ r.citation_author_date_disambiguated
                              = format_authors(r.entry.author) \o <<" ">> \o r.year_disambiguated
                       /\ \E k \in 1..Len(Alphabet) :
                              r.year_disambiguated = BareYear(r.entry) \o <<Alphabet[k]>>


-----------------------------------------------------------------------------
(* A surname-year group of many works                                      *)

MaxGroup == 28

\* The k-th of the works of Hegel dated 2020, with the keys w01, w02, ...
WorkKey(k) == <<"w", DigitSeq[(k \div 10) + 1], DigitSeq[(k % 10) + 1]>>

Work(k) ==
    [key |-> WorkKey(k), entry_type |-> "book", author |-> <<Hegel>>, date |-> DateAt(2020)]

\* A document citing each of the first n works by key, in ascending or in
\* descending order of the keys, with or without a citation of Kant.
GroupCitationSets(n) ==
    {[k \in 1..n |-> <<"@">> \o WorkKey(k)], [k \in 1..n |-> <<"@">> \o WorkKey(n + 1 - k)]}

InitGroup ==
    /\ pc = "match"
    /\ \E n \in 1..MaxGroup :
           \E cs \in GroupCitationSets(n) :
               \E with_kant \in BOOLEAN :
                   /\ bibliography = [k \in 1..n |-> Work(k)]
                                     \o (IF with_kant THEN <<EntryK1>> ELSE <<>>)
                   /\ citations_set = cs \o (IF with_kant
                                            THEN <<<<"K", "a", "n", "t", " ", "1", "7", "8", "1">>>>
                                            ELSE <<>>)
    /\ markdown = <<>>
    /\ body_parts = <<>>
    /\ docs = <<>>
    /\ idx = 1
    /\ all_articles = <<>>
    /\ citations = <<>>
    /\ matched = NoResult
    /\ disambiguated = NoResult
    /\ outcome = Running
    /\ ProcIdle

NextGroup == MatchCitations \/ Disambiguate

SpecGroup == InitGroup /\ [][NextGroup]_vars

\* The suffix of a disambiguated year: what follows the year of the entry.
Suffix(r) ==
    SubSeq(r.year_disambiguated, Len(BareYear(r.entry)) + 1, Len(r.year_disambiguated))

\* C23: whatever the size of a group, each suffix assigned is one
\* lower-case letter from "a" to "z"; the 27th and later entries get no
\* other character.
C23_SuffixIsLetter ==
    Disambiguated =>
        \A i \in 1..Len(disambiguated.list) :
            LET r == disambiguated.list[i]
            IN  Cardinality(GroupCitations(r)) >= 2
                    => \E k \in 1..Len(Alphabet) : Suffix(r) = <<Alphabet[k]>>

\* In a group of up to 26 citations the suffix of the entry of rank k is
\* the k-th letter, and in every group the suffix is the character with
\* the code of "a" plus the rank less one.
C23_HoldsUpTo26 ==
    Disambiguated =>
        \A i \in 1..Len(disambiguated.list) :
            LET r == disambiguated.list[i]
            IN  Cardinality(GroupCitations(r)) >= 2
                    => /\ Suffix(r) = <<Chr(CharCode("a") + KeyRank(r.entry) - 1)>>
                       /\ Cardinality(GroupCitations(r)) <= Len(Alphabet)
                              => Suffix(r) = <<Alphabet[KeyRank(r.entry)]>>

\* A group of exactly 26 works: the last gets "z".
C23_TwentySixWitness ==
    /\ Disambiguated
    /\ Len(disambiguated.list) = Len(Alphabet)
    /\ \E i \in 1..Len(disambiguated.list) : Suffix(disambiguated.list[i]) = <<"z">>


-----------------------------------------------------------------------------
(* Further claims about match_citations_to_bibliography (SpecResolve).     *)

-----------------------------------------------------------------------------
(* Parenthesised spans with short numbers                                  *)

MaxSpans == 3

\* Spans of a body: "(Hegel 20)", "(Hegel 5)", "(Kant 2020)",
\* "(see Table 3, 1781)", "(@k1)", "(Hegel)" and plain text.
SpanPieces ==
    {<<"(", "H", "e", "g", "e", "l", " ", "2", "0", ")">>,
     <<"(", "H", "e", "g", "e", "l", " ", "5", ")">>,
     <<"(", "K", "a", "n", "t", " ", "2", "0", "2", "0", ")">>,
     <<"(", "s", "e", "e", " ", "T", "a", "b", "l", "e", " ", "3", ",", " ", "1", "7", "8", "1", ")">>,
     <<"(", "@", "k", "1", ")">>,
     <<"(", "H", "e", "g", "e", "l", ")">>,
     <<" ", "x", " ">>}

InitSpans ==
    /\ pc = "extract"
    /\ body_parts \in SeqsUpTo(SpanPieces, MaxSpans)
    /\ markdown = Flatten(body_parts)
    /\ docs = <<>>
    /\ idx = 1
    /\ all_articles = <<>>
    /\ citations = <<>>
    /\ citations_set = <<>>
    /\ bibliography = <<>>
    /\ matched = NoResult
    /\ disambiguated = NoResult
    /\ outcome = Running
    /\ ProcIdle

NextSpans == ExtractCitations \/ VerifyFormat

SpecSpans == InitSpans /\ [][NextSpans]_vars

SpansExtracted == pc \in {"format", "set", "exit"} /\ markdown = Flatten(body_parts)

\* The citation has four digits in a row.
HasFourDigits(c) ==
    \E a \in 1..(Len(c) - 3) : \A i \in a..(a + 3) : IsDigit(c[i])

\* C25: a span is extracted as an author-year citation only if it holds a
\* year token of four digits; "(Hegel 20)" and "(Hegel 5)" are not
\* extracted.
C25_ExtractedHaveFourDigitYear ==
    SpansExtracted =>
        \A i \in 1..Len(citations) :
            StartsWith(citations[i], <<"@">>) \/ HasFourDigits(citations[i])

\* Every author-year citation extracted holds a digit, and the body whose
\* spans have short numbers only is then refused by
\* verify_citations_format.
C25_HoldsWithOneDigit ==
    SpansExtracted =>
        /\ \A i \in 1..Len(citations) :
               StartsWith(citations[i], <<"@">>)
               \/ \E k \in 1..Len(citations[i]) : IsDigit(citations[i][k])
        /\ (pc # "format" /\ \E i \in 1..Len(citations) :
                                 citations[i] \in {<<"H", "e", "g", "e", "l", " ", "2", "0">>, <<"H", "e", "g", "e", "l", " ", "5">>})
               => pc = "exit"

\* "(Hegel 20)" alone in a body is extracted and the run ends with the
\* error for a malformed citation.
C25_ShortYearRefused ==
    /\ SpansExtracted
    /\ markdown = <<"(", "H", "e", "g", "e", "l", " ", "2", "0", ")">>
    /\ citations = <<<<"H", "e", "g", "e", "l", " ", "2", "0">>>>
    /\ pc = "exit"
    /\ outcome.kind = "exit_malformed"


-----------------------------------------------------------------------------
(* The order of the checks of verify_mdx_files                             *)

\* Bodies that fail more than one check: "(Hume, 2020) (" is malformed and
\* unbalanced, "(Hume, 2020) (Marx 1867)" malformed and unmatched,
\* "(Marx 1867) (" unbalanced and unmatched; "(Marx 1867) (Hume, 2020)" has
\* the unmatched citation before the malformed one.
OrderBodies ==
    {<<"(", "H", "u", "m", "e", ",", " ", "2", "0", "2", "0", ")", " ", "(">>,
     <<"(", "H", "u", "m", "e", ",", " ", "2", "0", "2", "0", ")", " ", "(", "M", "a", "r", "x", " ", "1", "8", "6", "7", ")">>,
     <<"(", "M", "a", "r", "x", " ", "1", "8", "6", "7", ")", " ", "(">>,
     <<"(", "H", "e", "g", "e", "l", " ", "2", "0", "2", "0", ")">>,
     <<"(", "M", "a", "r", "x", " ", "1", "8", "6", "7", ")", " ", "(", "H", "u", "m", "e", ",", " ", "2", "0", "2", "0", ")">>,
     <<"(", "@", "h", "2", ")", " ", "(", "H", "e", "g", "e", "l", " ", "2", "0", "2", "0", ",", " ", "1", ")">>,
     <<"(", "K", "a", "n", "t", " ", "1", "7", "8", "1", ")", ")">>}

\* One article with such a body, with or without index title.
OrderDocuments ==
    {[parse_ok |-> TRUE, is_article |-> TRUE, has_index_title |-> t, body |-> b] :
         t \in BOOLEAN, b \in OrderBodies}

InitOrder ==
    /\ pc = "read"
    /\ docs \in {<<d>> : d \in OrderDocuments}
    /\ bibliography \in BatchBibliographies
    /\ idx = 1
    /\ all_articles = <<>>
    /\ markdown = <<>>
    /\ citations = <<>>
    /\ citations_set = <<>>
    /\ matched = NoResult
    /\ disambiguated = NoResult
    /\ outcome = Running
    /\ ProcIdle
    /\ body_parts = <<>>

NextOrder ==
    \/ ReadFile
    \/ CheckBalance
    \/ ExtractCitations
    \/ VerifyFormat
    \/ CreateSet
    \/ MatchCitations
    \/ Disambiguate
    \/ TryFrom
    \/ Finish

SpecOrder == InitOrder /\ [][NextOrder]_vars

\* The parentheses of the body are balanced.
Balanced(md) ==
    /\ Opened(md, Len(md)) = Closed(md, Len(md))
    /\ \A k \in 1..Len(md) : Closed(md, k) <= Opened(md, k)

\* Every citation not given by key has a year token before its comma.
WellFormed(cs) ==
    \A i \in 1..Len(cs) : StartsWith(cs[i], <<"@">>) \/ HasYearToken(cs[i])

\* The run over the one document has ended with an error.
OrderFailed == pc \in {"error", "exit"} /\ Len(docs) = 1 /\ idx = 1 /\ body_parts = <<>>

\* C26: the checks of a document run in the order balance, extraction,
\* format, de-duplication, matching, disambiguation, and the first that
\* fails decides the error: an unbalanced body is reported before any
\* citation is extracted, a malformed citation before any is matched.
C26_FirstFailingCheckDecides ==
    OrderFailed =>
        LET md == docs[1].body
            cs == extract_citations_from_markdown(md)
        IN  /\ ~Balanced(md) =>
                   /\ outcome.kind = "err_unbalanced"
                   /\ citations = <<>>
            /\ (Balanced(md) /\ ~WellFormed(cs)) =>
                   /\ outcome.kind = "exit_malformed"
                   /\ citations = cs
                   /\ citations_set = <<>>
                   /\ matched = NoResult
            /\ (Balanced(md) /\ WellFormed(cs)) =>
                   /\ outcome.kind \in {"exit_unmatched", "err_missing_title"}
                   /\ citations_set # <<>>
                   /\ outcome.kind = "err_missing_title" => disambiguated.kind = "ok"

\* The body "(Hume, 2020) (Marx 1867)", malformed and unmatched, ends with
\* the error for the malformed citation, nothing having been matched.
C26_Witness ==
    /\ OrderFailed
    /\ docs[1].body = <<"(", "H", "u", "m", "e", ",", " ", "2", "0", "2", "0", ")", " ", "(", "M", "a", "r", "x", " ", "1", "8", "6", "7", ")">>
    /\ outcome.kind = "exit_malformed"
    /\ matched = NoResult


-----------------------------------------------------------------------------
(* create_citations_set on lists with repeated citations                   *)

MaxSetLen == 3

\* Citations that differ in the locator only ("Hegel 2020", "Hegel 2020, 12",
\* "Hegel 2020, 15"; "@h1", "@h1, p. 3"), one with two commas and one with
\* a space before the comma.
SetCitationPool ==
    {<<"H", "e", "g", "e", "l", " ", "2", "0", "2", "0">>,
     <<"H", "e", "g", "e", "l", " ", "2", "0", "2", "0", ",", " ", "1", "2">>,
     <<"H", "e", "g", "e", "l", " ", "2", "0", "2", "0", ",", " ", "1", "5">>,
     <<"@", "h", "1">>,
     <<"@", "h", "1", ",", " ", "p", ".", " ", "3">>,
     <<"K", "a", "n", "t", " ", "1", "7", "8", "1", ",", " ", "5", ",", " ", "7">>,
     <<"H", "e", "g", "e", "l", " ", "2", "0", "2", "0", " ", ",", " ", "1", "2">>}

InitSet ==
    /\ pc = "set"
    /\ citations \in SeqsUpTo(SetCitationPool, MaxSetLen)
    /\ markdown = <<>>
    /\ body_parts = <<>>
    /\ docs = <<>>
    /\ bibliography = <<>>
    /\ idx = 1
    /\ all_articles = <<>>
    /\ citations_set = <<>>
    /\ matched = NoResult
    /\ disambiguated = NoResult
    /\ outcome = Running
    /\ ProcIdle

NextSet == CreateSet

SpecSet == InitSet /\ [][NextSet]_vars

\* create_citations_set has returned.
SetBuilt == pc = "match"

\* The first position of cs whose part before the comma is t (0 if none).
FirstOccurrence(cs, t) ==
    LET at == {i \in 1..Len(cs) : PartBeforeComma(cs[i]) = t}
    IN  IF at = {} THEN 0 ELSE SetMin(at)

\* C27: the set holds, in the order of first occurrence, the text before the
\* first comma of each citation, no value twice, and building the set of the
\* set returns it unchanged.
C27_FirstOccurrencesOnce ==
    SetBuilt =>
        /\ \A i \in 1..Len(citations) :
               \E j \in 1..Len(citations_set) :
                   citations_set[j] = PartBeforeComma(citations[i])
        /\ \A j \in 1..Len(citations_set) :
               FirstOccurrence(citations, citations_set[j]) > 0
        /\ \A j, k \in 1..Len(citations_set) :
               j < k => FirstOccurrence(citations, citations_set[j])
                            < FirstOccurrence(citations, citations_set[k])
        /\ create_citations_set(citations_set) = citations_set

\* "Hegel 2020, 12", "@h1", "Hegel 2020, 15" gives "Hegel 2020", "@h1".
C27_LocatorsCollapse ==
    /\ SetBuilt
    /\ citations = <<<<"H", "e", "g", "e", "l", " ", "2", "0", "2", "0", ",", " ", "1", "2">>, <<"@", "h", "1">>, <<"H", "e", "g", "e", "l", " ", "2", "0", "2", "0", ",", " ", "1", "5">>>>
    /\ citations_set = <<<<"H", "e", "g", "e", "l", " ", "2", "0", "2", "0">>, <<"@", "h", "1">>>>


-----------------------------------------------------------------------------
(* The jump links of the index and its headings (SpecIndex).               *)

IsHeadingPiece(p) == p.kind = "heading"

\* The letters of the headings of the body, in the order of the body.
HeadingLetters(pieces) ==
    [i \in 1..Len(SelectSeq(pieces, IsHeadingPiece)) |->
         SelectSeq(pieces, IsHeadingPiece)[i].letter[1]]

\* The letters of the links of the row, in the order of the row: a link is
\* "[", the letter, "](#", the lower-case letter, ")".
JumpLetters(row) ==
    LET at == {i \in 1..Len(row) - 1 : row[i] = "["}
        Nth(k) == CHOOSE i \in at : Cardinality({j \in at : j < i}) = k - 1
    IN  [k \in 1..Cardinality(at) |-> row[Nth(k) + 1]]

\* C28: the letters of the jump-link row are the letters of the headings of
\* the body, in the same order, each heading once.
C28_JumpLinksFollowHeadings ==
    IndexBuilt =>
        /\ JumpLetters(index_payload.jump_links) = HeadingLetters(index_payload.pieces)
        /\ \A i, j \in 1..Len(HeadingLetters(index_payload.pieces)) :
               i # j => HeadingLetters(index_payload.pieces)[i]
                            # HeadingLetters(index_payload.pieces)[j]

\* The first character of the title of each entry is an ASCII letter.
LetterFirst(pieces) ==
    \A i \in EntryPieces(pieces) :
        /\ pieces[i].index_title # <<>>
        /\ IsUpper(ToAsciiUppercase(pieces[i].index_title[1]))

\* The row has one link per letter that has a heading, and it follows the
\* headings where every title begins with an ASCII letter.
C28_HoldsForAsciiTitles ==
    IndexBuilt =>
        /\ Range(JumpLetters(index_payload.jump_links))
               = Range(HeadingLetters(index_payload.pieces))
        /\ \A i, j \in 1..Len(JumpLetters(index_payload.jump_links)) :
               i # j => JumpLetters(index_payload.jump_links)[i]
                            # JumpLetters(index_payload.jump_links)[j]
        /\ LetterFirst(index_payload.pieces)
           => JumpLetters(index_payload.jump_links)
                  = HeadingLetters(index_payload.pieces)


-----------------------------------------------------------------------------
(* The counters of process_mdx_files (SpecProcess).                        *)

\* The articles among the first k for which nothing is to be inserted.
EmptyAmong(k) == {i \in 1..k : mdx_payload(articles[i]) = <<>>}

\* The loop of process_mdx_files is between two articles or has ended:
\* idx - 1 articles have been handled.
BetweenArticles == pc \in {"process", "processed"}

\* C29: when k articles have been handled, the count of the processed
\* articles and the count of the empty payloads add up to k: the articles
\* with an empty payload are counted as empty, the others as processed.
C29_CountersAddUp ==
    BetweenArticles =>
        /\ inserter_outcome.total_articles_processed
               + inserter_outcome.total_empty_payloads = idx - 1
        /\ inserter_outcome.total_empty_payloads = Cardinality(EmptyAmong(idx - 1))

\* Two articles have been handled, one written in full and one with an
\* empty payload.
C29_OneOfEach ==
    /\ pc = "processed"
    /\ Len(articles) = 2
    /\ \A i \in 1..2 : Whole(articles[i])
    /\ inserter_outcome.total_articles_processed = 1
    /\ inserter_outcome.total_empty_payloads = 1


-----------------------------------------------------------------------------
(* run: verification of the batch, then processing in mode process         *)

Modes == {"verify", "process"}

\* The path of the i-th document of the batch, and what its file holds.
PathOf(i) == <<"p">> \o FormatNat(i)

Contents(doc) == Frontmatter \o doc.body

\* The bibliography entry with the fields the renderer reads.
FullEntry(e) ==
    [RenderEntry(e.key, e.entry_type, e.author, Some(<<"P">>)) EXCEPT !.date = e.date]

\* The ArticleFileData that verify_mdx_files builds for a verified article.
ArticleFileData(verified) ==
    Article(PathOf(verified.path), NoMetadata, docs[verified.path].body,
            [i \in 1..Len(verified.entries_disambiguated) |->
                 [verified.entries_disambiguated[i] EXCEPT !.entry = FullEntry(@)]])

\* A variant that processes whatever the mode.
StartProcess_AnyMode ==
    /\ pc = "done"
    /\ articles' = [i \in 1..Len(all_articles) |-> ArticleFileData(all_articles[i])]
    /\ inserter_outcome' = NoneInserted
    /\ idx' = 1
    /\ pc' = "process"
    /\ UNCHANGED <<outcome, entries, bib_html, files, writer, rewrite, index_payload>>
    /\ UNCHANGED verifyvars

\* Phase 2 of run: in mode process the verified articles are handed to
\* process_mdx_files, which starts with its counters at zero.
StartProcess ==
    /\ pc = "done"
    /\ mode = "process"
    /\ articles' = [i \in 1..Len(all_articles) |-> ArticleFileData(all_articles[i])]
    /\ inserter_outcome' = NoneInserted
    /\ idx' = 1
    /\ pc' = "process"
    /\ UNCHANGED <<outcome, entries, bib_html, files, writer, rewrite, index_payload>>
    /\ UNCHANGED verifyvars

\* In mode verify run returns Ok(()) after phase 1.
ReturnVerified ==
    /\ pc = "done"
    /\ mode # "process"
    /\ pc' = "completed"
    /\ UNCHANGED <<idx, outcome>>
    /\ UNCHANGED procvars
    /\ UNCHANGED verifyvars

RunBibliographies == {<<EntryH1, EntryK1>>, <<EntryK1>>, <<EntryH2, EntryH1>>}

InitRun ==
    /\ pc = "read"
    /\ mode \in Modes
    /\ docs \in Batches
    /\ bibliography \in RunBibliographies
    /\ files = [p \in {PathOf(i) : i \in 1..Len(docs)} |->
                    Contents(docs[CHOOSE i \in 1..Len(docs) : PathOf(i) = p])]
    /\ idx = 1
    /\ all_articles = <<>>
    /\ markdown = <<>>
    /\ citations = <<>>
    /\ citations_set = <<>>
    /\ matched = NoResult
    /\ disambiguated = NoResult
    /\ outcome = Running
    /\ body_parts = <<>>
    /\ entries = <<>>
    /\ bib_html = <<>>
    /\ articles = <<>>
    /\ inserter_outcome = <<>>
    /\ writer = <<>>
    /\ rewrite = <<>>
    /\ index_payload = <<>>

NextRun ==
    \/ ReadFile
    \/ CheckBalance
    \/ ExtractCitations
    \/ VerifyFormat
    \/ CreateSet
    \/ MatchCitations
    \/ Disambiguate
    \/ TryFrom
    \/ Finish
    \/ StartProcess
    \/ ReturnVerified
    \/ ProcessFile
    \/ CreateFile
    \/ DropWriter
    \/ FinishProcess

SpecRun == InitRun /\ [][NextRun]_vars

\* Every document file holds what it held at the start of the run.
FilesUnchanged == \A i \in 1..Len(docs) : files[PathOf(i)] = Contents(docs[i])

\* process_mdx_files has not been called.
NotProcessing == articles = <<>> /\ inserter_outcome = <<>>

\* Verification is under way, or it has ended with an error.
VerificationUnderWay == outcome = Running

VerificationFailed ==
    \/ outcome.kind \in {"exit_read", "err_unbalanced", "exit_malformed",
                         "exit_unmatched", "err_missing_title"}
    \/ outcome.kind = "panic" /\ NotProcessing

\* C30: no document file is written before the verification of every
\* document of the batch has succeeded: while verification is under way,
\* after it has failed, and throughout a run in mode verify, every file
\* holds what it held at the start.
C30_NoWriteUnlessAllVerified ==
    (VerificationUnderWay \/ VerificationFailed \/ mode = "verify")
        => FilesUnchanged /\ NotProcessing

\* In mode process the first of two documents is an article with a
\* bibliography to insert and the second fails verification: the run has
\* ended with both files as they were.
C30_SecondFailsWitness ==
    /\ mode = "process"
    /\ Len(docs) = 2
    /\ VerificationFailed
    /\ idx = 2
    /\ Len(all_articles) = 1
    /\ all_articles[1].entries_disambiguated # <<>>
    /\ FilesUnchanged

====
